---- MODULE Spec2Model ----
(***************************************************************************)
(* Secure DFU over Web Bluetooth: the driver of src/src/secure-dfu.ts      *)
(* (SecureDfu) as a state machine, together with the GATT transport and    *)
(* the DFU target it talks to (the test double of the repository,          *)
(* NordicDfuDevice).                                                       *)
(*                                                                         *)
(* JavaScript runs to completion between two awaits, so one action is one  *)
(* such stretch: everything a handler does until it next waits for the     *)
(* transport, a notification or a timer.                                   *)
(***************************************************************************)
EXTENDS Integers, Sequences, FiniteSets, TLC

(***************************************************************************)
(* Bounds of the model.                                                    *)
(***************************************************************************)
\* length of the firmware image (.bin) and of the non-empty init packet (.dat)
FwLen == 4
InitLen == 2
\* NordicDfuDevice config.maxObjectSize
MaxObjectSize == 2
\* departures from a clean run, in one run: the target holds data of an
\* earlier update, the target is configured to fail, a write fails, a
\* submission meets a busy transport, the link drops
MaxFaults == 1
\* write chains left behind by resets of the queue whose writes have not yet
\* returned
MaxDetached == 1
\* bytes of firmware NordicDfuDevice persists, over all EXECUTEs of a run
MaxFlash == 6
\* timers of packet receipt notifications the target has pending
MaxPrnTimers == 1
\* reads of the manifest getter, and changes the caller makes to what it got
MaxReads == 2
MaxMutations == 2
\* NordicDfuDevice config.mtu of a target that takes short writes only
SmallMtu == 1
\* the tests' failure injection: the packet write that fails is the one made
\* with packetsSentSincePRN = FailAt
FailAt == 1

(***************************************************************************)
(* Program constants.                                                      *)
(***************************************************************************)
\* queuedWrite: let attempts = 15
MaxAttempts == 15
\* calculateSmartSpeed: retries at the current speed before degrading
MaxRetriesAtSpeed == 3
\* calculateSmartSpeed: the default strategy's packet size floor
MinPacketSize == 20
\* calculateSmartSpeed: PRN interval enabled when it was 0
SafePrn == 12
\* packet sizes and PRN intervals the caller configures
SmallPacket == 1
LargePacket == 21
PrnEvery == 2
\* NordicDfuDevice: config.mtu when the test gives none
DefaultMtu == 512

(***************************************************************************)
(* CRC-32 (crc-32's CRC32.buf): reflected, polynomial 0xEDB88320, initial  *)
(* value and final xor 0xFFFFFFFF, result as a signed 32-bit integer.  A   *)
(* 32-bit register is kept as <<high 16 bits, low 16 bits>>.               *)
(***************************************************************************)
RECURSIVE Xor(_, _)
Xor(a, b) ==
    IF a = 0 THEN b
    ELSE IF b = 0 THEN a
    ELSE (((a % 2) + (b % 2)) % 2) + (2 * Xor(a \div 2, b \div 2))

CrcShift(c) ==
    LET hi == c[1] \div 2
        lo == (c[2] \div 2) + ((c[1] % 2) * 32768)
    IN  IF c[2] % 2 = 1 THEN <<Xor(hi, 60856), Xor(lo, 33568)>> ELSE <<hi, lo>>

RECURSIVE CrcRounds(_, _)
CrcRounds(c, k) == IF k = 0 THEN c ELSE CrcRounds(CrcShift(c), k - 1)

CrcTable == [n \in 0..255 |-> CrcRounds(<<0, n>>, 8)]

CrcStep(c, byte) ==
    LET t == CrcTable[Xor(c[2] % 256, byte)]
    IN  <<Xor(t[1], c[1] \div 256), Xor(t[2], (c[2] \div 256) + ((c[1] % 256) * 256))>>

RECURSIVE CrcFold(_, _, _)
CrcFold(c, s, i) == IF i > Len(s) THEN c ELSE CrcFold(CrcStep(c, s[i]), s, i + 1)

ToInt32(c) ==
    IF c[1] >= 32768 THEN ((c[1] - 65536) * 65536) + c[2] ELSE (c[1] * 65536) + c[2]

crc32Impl(s) ==
    LET c == CrcFold(<<65535, 65535>>, s, 1)
    IN  ToInt32(<<65535 - c[1], 65535 - c[2]>>)

(***************************************************************************)
(* Helpers on byte buffers.                                                *)
(***************************************************************************)
Min(a, b) == IF a < b THEN a ELSE b

\* ArrayBuffer.slice(from, to), 0-based, end exclusive, clamped to the buffer
Slice(buf, from, to) == SubSeq(buf, Min(from, Len(buf)) + 1, Min(to, Len(buf)))

\* createDfuPackage: firmwareData[i] = i % 256, initData[i] = (i + 1) % 256
FirmwareData(n) == [i \in 1..n |-> (i - 1) % 256]
InitData(n) == [i \in 1..n |-> i % 256]

\* a device buffer that differs from the image in its first byte
\* (corruptedInit[0] = ~corruptedInit[0])
Corrupted(buf) == [i \in 1..Len(buf) |-> IF i = 1 THEN 255 - buf[1] ELSE buf[i]]

(***************************************************************************)
(* The protocol: opcodes (OPERATIONS), result codes (RESPONSE) and what    *)
(* travels over the two characteristics.                                   *)
(***************************************************************************)
OpCreate == 1
OpSetPrn == 2
OpChecksum == 3
OpExecute == 4
OpSelect == 6
RespHeader == 96
\* OPERATIONS.RESPONSE, the first bytes handleNotification takes for the
\* header of a response
AltHeader == 32
OPERATIONS_RESPONSE == {RespHeader, AltHeader}

TypeCommand == 1
TypeData == 2

ResSuccess == 1
ResInsufficient == 4
ResFailed == 10
ResExtended == 11
ExtFwVersion == 5
ExtInsufficientSpace == 13

\* DataView.setUint32 of a number above -65536: the 32 bits as
\* <<high 16 bits, low 16 bits>>
setUint32(n) == IF n >= 0 THEN <<n \div 65536, n % 65536>> ELSE <<65535, 65536 + n>>

\* a value written to a characteristic: a control request (opcode, object
\* type, parameter) or, with opcode 0, a packet of image bytes
Request(opcode, type, arg) == [opcode |-> opcode, type |-> type, arg |-> arg, data |-> <<>>]
Packet(data) == [opcode |-> 0, type |-> 0, arg |-> 0, data |-> data]

\* a notification of the control characteristic: hdr 0x60 is a response,
\* hdr 0x03 a packet receipt notification (offset and crc only)
Response(op, result, ext, maxSize, offset, crc) ==
    [hdr |-> RespHeader, op |-> op, result |-> result, ext |-> ext,
     maxSize |-> maxSize, offset |-> offset, crc |-> crc]
ChecksumNotification(offset, crc) ==
    [hdr |-> OpChecksum, op |-> 0, result |-> 0, ext |-> 0,
     maxSize |-> 0, offset |-> offset, crc |-> crc]

(***************************************************************************)
(* The DFU target (NordicDfuDevice).  currentObject is the object being    *)
(* received, with offset = data.length and crc = CRC32.buf(data);          *)
(* flashStorage holds what EXECUTE has persisted.                          *)
(*                                                                         *)
(* NordicDfuDevice counts offset and CRC from the start of the current     *)
(* object.  The driver checks them against buffer.slice(0, transferred),   *)
(* the image from its first byte, so a target of that kind completes an    *)
(* image of several windows only when all windows hold the same bytes.     *)
(* wholeImage selects a target that counts from the start of the image     *)
(* (what it has persisted and the current object) and that drops what it   *)
(* holds of an earlier update when a new command object is created; in     *)
(* everything else it is NordicDfuDevice.                                  *)
(***************************************************************************)
NoObject == [type |-> 0, data |-> <<>>]

Flash(d, type) ==
    IF type = TypeCommand THEN d.flashStorage.initPacket ELSE d.flashStorage.firmware

\* the bytes that the offset and the crc reported for objects of type cover
Held(d, type) ==
    (IF d.wholeImage THEN Flash(d, type) ELSE <<>>)
    \o (IF d.currentObject.type = type THEN d.currentObject.data ELSE <<>>)

\* what a write does to the target: its new state, the notifications it
\* sends, the error writeValue throws ("" if none)
Reply(d, n) == [dev |-> d, out |-> <<n>>, error |-> ""]

handleSelect(d, m) ==
    Reply(d, Response(OpSelect, ResSuccess, 0, d.maxObjectSize,
                      Len(Held(d, m.type)), crc32Impl(Held(d, m.type))))

\* size > maxObjectSize, the size as the 32 bits the request carries
handleCreate(d, m) ==
    IF m.arg[1] > 0 \/ m.arg[2] > d.maxObjectSize
    THEN Reply(d, Response(OpCreate, ResInsufficient, 0, 0, 0, 0))
    ELSE LET fs == IF d.wholeImage /\ m.type = TypeCommand
                   THEN [initPacket |-> <<>>, firmware |-> <<>>]
                   ELSE d.flashStorage
         IN  Reply([d EXCEPT !.currentObject = [type |-> m.type, data |-> <<>>],
                             !.flashStorage = fs],
                   Response(OpCreate, ResSuccess, 0, 0, 0, 0))

handleSetPrn(d, m) ==
    Reply([d EXCEPT !.prnInterval = m.arg, !.packetsReceivedSincePrn = 0],
          Response(OpSetPrn, ResSuccess, 0, 0, 0, 0))

\* crc = ~crc under forceCrcMismatch
handleChecksum(d, m) ==
    IF d.currentObject = NoObject
    THEN Reply(d, Response(OpChecksum, ResFailed, 0, 0, 0, 0))
    ELSE LET held == Held(d, d.currentObject.type)
             crc == crc32Impl(held)
         IN  Reply(d, Response(OpChecksum, ResSuccess, 0, 0, Len(held),
                               IF d.forceCrcMismatch THEN (0 - crc) - 1 ELSE crc))

\* the init packet is replaced, the firmware appended to
handleExecute(d, m) ==
    IF d.currentObject = NoObject
    THEN Reply(d, Response(OpExecute, ResFailed, 0, 0, 0, 0))
    ELSE LET o == d.currentObject
             fs == IF o.type = TypeCommand
                   THEN [d.flashStorage EXCEPT !.initPacket = o.data]
                   ELSE [d.flashStorage EXCEPT !.firmware = @ \o o.data]
         IN  Reply([d EXCEPT !.flashStorage = fs, !.currentObject = NoObject],
                   Response(OpExecute, ResSuccess, 0, 0, 0, 0))

handleControlWrite(d, m) ==
    IF d.forceExtendedError = m.opcode
    THEN Reply(d, Response(m.opcode, ResExtended, d.forceExtendedCode, 0, 0, 0))
    ELSE CASE m.opcode = OpSelect -> handleSelect(d, m)
           [] m.opcode = OpCreate -> handleCreate(d, m)
           [] m.opcode = OpSetPrn -> handleSetPrn(d, m)
           [] m.opcode = OpChecksum -> handleChecksum(d, m)
           [] OTHER -> handleExecute(d, m)

TooLong == "Value is longer than maximum length"

\* the packet is appended to the current object; every prnInterval packets
\* the target starts the timer of a packet receipt notification
handlePacketWrite(d, m) ==
    IF d.currentObject = NoObject
    THEN [dev |-> d, out |-> <<>>, error |-> ""]
    ELSE IF Len(m.data) > d.mtu
    THEN [dev |-> d, out |-> <<>>, error |-> TooLong]
    ELSE LET d1 == [d EXCEPT !.currentObject.data = @ \o m.data,
                             !.packetsReceivedSincePrn = @ + 1]
         IN  IF d1.prnInterval > 0 /\ d1.packetsReceivedSincePrn >= d1.prnInterval
             THEN [dev |-> [d1 EXCEPT !.packetsReceivedSincePrn = 0, !.prnTimers = @ + 1],
                   out |-> <<>>, error |-> ""]
             ELSE [dev |-> d1, out |-> <<>>, error |-> ""]

\* the timer fires: the notification tells what the target holds by then
sendChecksumNotification(d) ==
    LET held == Held(d, d.currentObject.type)
    IN  IF d.currentObject = NoObject THEN <<>>
        ELSE <<ChecksumNotification(Len(held), crc32Impl(held))>>


(***************************************************************************)
(* State.                                                                  *)
(*   dfu            the SecureDfu instance: its fields, the position and   *)
(*                  locals of the update() in flight, the write queue, and *)
(*                  what its log and progress listeners have received      *)
(*   dev            the DFU target                                         *)
(*   notifications  responses sent by the target, not yet dispatched        *)
(*   gatt           the link: device.gatt.connected, and the faults the    *)
(*                  transport has produced so far                          *)
(***************************************************************************)
VARIABLES dfu, dev, notifications, gatt, pkg

vars == <<dfu, dev, notifications, gatt, pkg>>

\* the tables RESPONSE and EXTENDED_ERROR; a code that is no key of the table
\* gives undefined
RESPONSE(result) ==
    CASE result = 0 -> "Invalid opcode"
      [] result = 1 -> "Operation successful"
      [] result = 2 -> "Opcode not supported"
      [] result = 3 -> "Missing or invalid parameter value"
      [] result = 4 -> "Not enough memory for the data object"
      [] result = 5 -> "Data object does not match requirements"
      [] result = 7 -> "Not a valid object type for a Create request"
      [] result = 8 -> "Operation not permitted (Wrong state)"
      [] result = 10 -> "Operation failed"
      [] result = 11 -> "Extended error"
      [] OTHER -> "undefined"

EXTENDED_ERROR(code) ==
    CASE code = 0 -> "No extended error"
      [] code = 1 -> "Invalid error code"
      [] code = 2 -> "Wrong command format"
      [] code = 3 -> "Unknown command"
      [] code = 4 -> "Init command invalid"
      [] code = 5 -> "Firmware version failure (Downgrade blocked)"
      [] code = 6 -> "Hardware version failure"
      [] code = 7 -> "Softdevice version failure"
      [] code = 8 -> "Signature missing"
      [] code = 9 -> "Wrong hash type"
      [] code = 10 -> "Hash failed"
      [] code = 11 -> "Wrong signature type"
      [] code = 12 -> "Verification failed (CRC mismatch)"
      [] code = 13 -> "Insufficient space"
      [] OTHER -> "undefined"

\* result.toString(16)
RECURSIVE toString16(_)
toString16(n) ==
    LET digit == <<"0", "1", "2", "3", "4", "5", "6", "7", "8", "9", "a", "b", "c", "d", "e", "f">>
    IN  IF n < 16 THEN digit[n + 1] ELSE toString16(n \div 16) \o digit[(n % 16) + 1]

\* a variant of ErrorMessage that reads the result table for every result
ErrorMessagePlain(n) == "Error 0x" \o toString16(n.result) \o ": " \o RESPONSE(n.result)

\* `Error 0x${result.toString(16)}: ${msg}`
ErrorMessage(n) ==
    LET msg == IF n.result = ResExtended THEN EXTENDED_ERROR(n.ext) ELSE RESPONSE(n.result)
    IN  "Error 0x" \o toString16(n.result) \o ": " \o msg

(***************************************************************************)
(* EventDispatcher.  listeners holds, for each event type, the listeners   *)
(* in the order they were added: "plain" returns, "throws" throws, and     *)
(* "strict" throws at a log message that reports an error response.  logged *)
(* and progress are the events the listener added last has received,       *)
(* reached the number of listeners the last dispatch has invoked.          *)
(*                                                                         *)
(* A listener that throws ends the handler that dispatched the event:      *)
(* thrown holds the state of the instance at the throw, and what the       *)
(* operators of the handler do after it is dropped when the step ends.     *)
(***************************************************************************)
\* addEventListener: one listener of each event type
PlainListeners == [log |-> <<"plain">>, progress |-> <<"plain">>]

ListenerError == "listener error"

\* the messages handleNotification logs for an error response
ErrorMessages == {ErrorMessage([result |-> r, ext |-> e]) : r \in (0..11) \ {ResSuccess}, e \in 0..13}

\* listener i throws at the event
Throws(ls, i, message) ==
    ls[i] = "throws" \/ (ls[i] = "strict" /\ message \in ErrorMessages)

\* this.listeners[eventType].forEach(listener => listener(event)): the
\* listeners invoked, up to and with the first that throws
Invoked(ls, message) ==
    IF \E i \in 1..Len(ls) : Throws(ls, i, message)
    THEN CHOOSE i \in 1..Len(ls) :
             Throws(ls, i, message) /\ \A j \in 1..(i - 1) : ~Throws(ls, j, message)
    ELSE Len(ls)

Threw(ls, message) == \E i \in 1..Len(ls) : Throws(ls, i, message)

\* dispatchEvent: received is the instance once the last listener has the event
dispatchEvent(s, eventType, message, received) ==
    LET ls == s.listeners[eventType]
        s1 == [(IF Invoked(ls, message) = Len(ls) THEN received ELSE s) EXCEPT
                  !.reached[eventType] = Invoked(ls, message)]
    IN  IF s.thrown # <<>> THEN s
        ELSE IF Threw(ls, message) THEN [s1 EXCEPT !.thrown = <<s1>>]
        ELSE s1

log(s, message) == dispatchEvent(s, "log", message, [s EXCEPT !.logged = @ \cup {message}])

emitProgress(s) ==
    dispatchEvent(s, "progress", "",
        [s EXCEPT !.progress = [object |-> s.currentObjectType,
                                totalBytes |-> IF s.totalBytes = 0 THEN 1 ELSE s.totalBytes,
                                sentBytes |-> s.sentBytes,
                                validatedBytes |-> s.validatedBytes]])

(***************************************************************************)
(* The write queue.  this.writeQueue is a promise chain: jobs holds the    *)
(* submissions of the chain that have not settled, the first of them the   *)
(* one running; error is the rejection the chain ended with ("" if none).  *)
(* A chain replaced by Promise.resolve() keeps running, detached.          *)
(*   phase    "queued" behind another job, "inflight" writeValue called,   *)
(*            "delivered" the target has the value, the call not returned  *)
(*   awaited  the update() in flight waits on this submission              *)
(*   calls    writeValue calls made for this submission                    *)
(***************************************************************************)
Job(ch, msg) ==
    [ch |-> ch, msg |-> msg, attempts |-> MaxAttempts, phase |-> "queued",
     awaited |-> TRUE, calls |-> 0, busy |-> FALSE, owner |-> 1]

\* the locals of an update() call and of the calls it makes, and its history
locals(s) ==
    [pc |-> s.pc, op |-> s.op, type |-> s.type, maxSize |-> s.maxSize, start |-> s.start,
     end |-> s.end, dataStart |-> s.dataStart, retryAt |-> s.retryAt, frames |-> s.frames,
     error |-> s.error, response |-> s.response, prnTimer |-> s.prnTimer,
     selected |-> s.selected, reported |-> s.reported, firstCreate |-> s.firstCreate,
     wrotePacket |-> s.wrotePacket, bytesWritten |-> s.bytesWritten,
     completed |-> s.completed, rejections |-> s.rejections, atSelect |-> s.atSelect,
     created |-> s.created]

\* the instance seen from update() call u: the fields of the instance are
\* shared, the locals are those of u
focus(s, u) ==
    IF s.self = u THEN s
    ELSE LET o == s.other
         IN  [s EXCEPT !.self = u, !.other = locals(s),
                       !.pc = o.pc, !.op = o.op, !.type = o.type, !.maxSize = o.maxSize,
                       !.start = o.start, !.end = o.end, !.dataStart = o.dataStart,
                       !.retryAt = o.retryAt, !.frames = o.frames, !.error = o.error,
                       !.response = o.response, !.prnTimer = o.prnTimer,
                       !.selected = o.selected, !.reported = o.reported,
                       !.firstCreate = o.firstCreate, !.wrotePacket = o.wrotePacket,
                       !.bytesWritten = o.bytesWritten, !.completed = o.completed,
                       !.rejections = o.rejections, !.atSelect = o.atSelect,
                       !.created = o.created]

EmptyQueue == [jobs |-> <<>>, error |-> ""]

\* the promise the update() waits on is rejected
reject(s, e) ==
    [s EXCEPT !.pc = "rejected", !.error = e,
              !.rejections = IF s.pc = "rejected" THEN @ ELSE @ + 1]

\* sendOperation's catch and transferData's await: the submission failed
submissionFailed(s, job, e) ==
    LET s1 == IF job.msg.opcode # 0
              THEN [s EXCEPT !.notifyFns = @ \ {job.msg.opcode}, !.waiter[job.msg.opcode] = 0]
              ELSE s
    IN  IF job.awaited THEN reject(focus(s1, job.owner), e) ELSE s1

RECURSIVE allFailed(_, _, _)
allFailed(s, jobs, e) ==
    IF jobs = <<>> THEN s ELSE allFailed(submissionFailed(s, Head(jobs), e), Tail(jobs), e)

\* what the driver has put on the air since the SELECT of the current image:
\* the first CREATE (the window it opens), the windows of all its CREATEs,
\* the image bytes written (1-based)
NoCreate == [start |-> -1, size |-> -1]

noteCall(s, job) ==
    IF job.msg.opcode = 0
    THEN [s EXCEPT !.wrotePacket = TRUE,
                   !.bytesWritten = @ \cup (s.start + s.dataStart + 1 ..
                                            s.start + s.dataStart + Len(job.msg.data))]
    ELSE IF job.msg.opcode = OpCreate
    THEN [s EXCEPT !.firstCreate = IF @ = NoCreate
                                   THEN [start |-> s.start, size |-> s.end - s.start] ELSE @,
                   !.created = @ \cup {[start |-> s.start, size |-> s.end - s.start]}]
    ELSE s

\* the callbacks of jobs, chained to a promise that is rejected, are not
\* called: each submission fails with the error of the earlier one, and its
\* write is not issued
passedOver(s, jobs) == [s EXCEPT !.unissued = @ \/ jobs # <<>>]

\* char.writeValue(value) is called for the first job of a chain; a null
\* characteristic throws a TypeError, which is not the busy error
startJob(s, jobs) ==
    IF jobs = <<>> THEN [s |-> s, jobs |-> <<>>, error |-> ""]
    ELSE IF Head(jobs).ch = "null"
    THEN [s |-> allFailed(passedOver(s, Tail(jobs)), jobs, "TypeError"),
          jobs |-> <<>>, error |-> "TypeError"]
    ELSE [s |-> noteCall(focus(s, Head(jobs).owner), Head(jobs)),
          jobs |-> <<[Head(jobs) EXCEPT !.phase = "inflight", !.calls = 1]>> \o Tail(jobs),
          error |-> ""]

queuedWrite(s, ch, msg) ==
    LET job == [Job(ch, msg) EXCEPT !.owner = s.self]
        q == s.writeQueue
    IN  IF q.error # "" THEN submissionFailed(passedOver(s, <<job>>), job, q.error)
        ELSE IF q.jobs # <<>>
        THEN [s EXCEPT !.writeQueue.jobs = Append(@, job)]
        ELSE LET r == startJob(s, <<job>>)
             IN  [r.s EXCEPT !.writeQueue = [jobs |-> r.jobs, error |-> r.error]]

\* this.writeQueue = Promise.resolve()
resetWriteQueue(s) ==
    [s EXCEPT !.writeQueue = EmptyQueue,
              !.detached = IF s.writeQueue.jobs = <<>> THEN @ ELSE Append(@, s.writeQueue.jobs)]

controlCharOf(s) == IF s.controlChar THEN "control" ELSE "null"
packetCharOf(s) == IF s.packetChar THEN "packet" ELSE "null"

(***************************************************************************)
(* sendOperation / sendControl: the waiter is registered under the first   *)
(* opcode byte, then the request is submitted; the update() continues when *)
(* the response arrives (pc "await") and the delay has passed ("settle").  *)
(***************************************************************************)
\* a variant of sendControl that submits the write and registers no waiter
sendControlUnregistered(s, req) ==
    queuedWrite([s EXCEPT !.pc = "await", !.op = req.opcode], controlCharOf(s), req)

sendControl(s, req) ==
    queuedWrite([s EXCEPT !.notifyFns = @ \cup {req.opcode}, !.waiter[req.opcode] = s.self,
                          !.pc = "await", !.op = req.opcode],
                controlCharOf(s), req)

Buffer(s) == IF s.type = TypeCommand THEN s.init ELSE s.firmware

(***************************************************************************)
(* transferData: one packet per call, a PRN wait before it when the        *)
(* interval is used up (pc "prnWait"), then the packet write ("packet")    *)
(* and the optional delay ("packetDelay").                                 *)
(***************************************************************************)
\* variants of checkCrc that accept, and that refuse, whatever the target reports
checkCrcAlways(buffer, crc) == TRUE
checkCrcNever(buffer, crc) == FALSE

checkCrc(buffer, crc) == crc = crc32Impl(buffer)

\* data = buffer.slice(start, end); end of the packet that starts at dataStart
DataEnd(s) == Min(s.dataStart + s.packetSize, s.end - s.start)

writePacket(s) ==
    LET packet == Slice(Buffer(s), s.start + s.dataStart, s.start + DataEnd(s))
    IN  queuedWrite([s EXCEPT !.pc = "packet"], packetCharOf(s), Packet(packet))

\* a variant of transferData that never waits for a PRN
transferDataNoWait(s, from) == writePacket([s EXCEPT !.dataStart = from])

transferData(s, from) ==
    LET s1 == [s EXCEPT !.dataStart = from]
    IN  IF s1.packetReceiptNotification > 0
           /\ s1.packetsSentSincePRN >= s1.packetReceiptNotification
        THEN [s1 EXCEPT !.pc = "prnWait", !.prnResolver = TRUE, !.prnWaiter = s.self,
                        !.prnTimer = TRUE]
        ELSE writePacket(s1)

\* the PRN wait is over: by the notification or by the timer of this wait
prnReleased(s) == writePacket([s EXCEPT !.packetsSentSincePRN = 0])

\* a variant of packetSent that leaves sentBytes as it was
packetSentUncounted(s) ==
    LET s1 == emitProgress(s)
    IN  IF DataEnd(s) < s.end - s.start
        THEN transferData(s1, DataEnd(s))
        ELSE sendControl(s1, Request(OpChecksum, 0, 0))

\* a variant of packetSent that requests the checksum after the first packet
packetSentOnce(s) ==
    sendControl(emitProgress([s EXCEPT !.sentBytes = s.start + DataEnd(s)]),
                Request(OpChecksum, 0, 0))

\* after the packet write and the delay
packetSent(s) ==
    LET s1 == emitProgress([s EXCEPT !.sentBytes = s.start + DataEnd(s)])
    IN  IF DataEnd(s) < s.end - s.start
        THEN transferData(s1, DataEnd(s))
        ELSE sendControl(s1, Request(OpChecksum, 0, 0))

packetWritten(s) ==
    LET s1 == [s EXCEPT !.packetsSentSincePRN = @ + 1]
    IN  IF s1.delay > 0 THEN [s1 EXCEPT !.pc = "packetDelay"] ELSE packetSent(s1)

(***************************************************************************)
(* transferObject: CREATE, packets, CALCULATE_CHECKSUM, EXECUTE for the    *)
(* window that contains offset.  frames holds the offset argument of every *)
(* transferObject call whose catch handler is still pending, innermost     *)
(* last.                                                                   *)
(***************************************************************************)
\* a variant of windowStart that does not align the offset to a window
windowStartUnaligned(offset, maxSize) == offset

windowStart(offset, maxSize) == offset - (offset % maxSize)

\* a variant of transferObject whose windows all have the size maxSize
transferObjectFull(s, offset) ==
    LET start == windowStart(offset, s.maxSize)
        end == start + s.maxSize
    IN  sendControl([s EXCEPT !.start = start, !.end = end, !.dataStart = 0,
                              !.frames = Append(@, offset)],
                    Request(OpCreate, s.type, setUint32(end - start)))

\* a variant of transferObject that starts every window with
\* packetsSentSincePRN at 0
transferObjectReset(s, offset) ==
    LET start == windowStart(offset, s.maxSize)
        end == Min(start + s.maxSize, Len(Buffer(s)))
    IN  sendControl([s EXCEPT !.start = start, !.end = end, !.dataStart = 0,
                              !.packetsSentSincePRN = 0,
                              !.frames = Append(@, offset)],
                    Request(OpCreate, s.type, setUint32(end - start)))

transferObject(s, offset) ==
    LET start == windowStart(offset, s.maxSize)
        end == Min(start + s.maxSize, Len(Buffer(s)))
    IN  sendControl([s EXCEPT !.start = start, !.end = end, !.dataStart = 0,
                              !.frames = Append(@, offset)],
                    Request(OpCreate, s.type, setUint32(end - start)))

\* the response to CALCULATE_CHECKSUM
checksumReceived(s) ==
    LET crc == s.response.crc
        transferred == s.response.offset
    IN  IF checkCrc(Slice(Buffer(s), 0, transferred), crc)
        THEN sendControl(emitProgress([log(s, "written") EXCEPT !.validatedBytes = transferred]),
                         Request(OpExecute, 0, 0))
        ELSE reject(s, "CRC fail")

\* the transfer of the current image is over: update() goes on
transferred(s) ==
    IF s.type = TypeCommand
    THEN [s EXCEPT !.pc = "pause", !.frames = <<>>]
    ELSE [log(s, "disconnecting...") EXCEPT !.pc = "disconnecting", !.frames = <<>>]

\* the response to EXECUTE
executed(s) ==
    IF s.end < Len(Buffer(s))
    THEN transferObject(s, s.end)
    ELSE transferred([log(s, "transfer complete") EXCEPT !.retriesAtCurrentSpeed = 0,
                                                          !.completed = @ \cup {s.type}])

(***************************************************************************)
(* transfer: SELECT, then restart, skip or resume from the reported offset *)
(***************************************************************************)
\* a variant of select that selects the data object for every image
selectFirmware(s, type) ==
    sendControl([s EXCEPT !.type = TypeData, !.frames = <<>>, !.selected = FALSE,
                          !.firstCreate = NoCreate, !.wrotePacket = FALSE,
                          !.bytesWritten = {}, !.rejections = 0, !.created = {},
                          !.atSelect = [packetSize |-> s.packetSize,
                                        prn |-> s.packetReceiptNotification]],
                Request(OpSelect, TypeData, 0))

select(s, type) ==
    sendControl([s EXCEPT !.type = type, !.frames = <<>>, !.selected = FALSE,
                          !.firstCreate = NoCreate, !.wrotePacket = FALSE,
                          !.bytesWritten = {}, !.rejections = 0, !.created = {},
                          !.atSelect = [packetSize |-> s.packetSize,
                                        prn |-> s.packetReceiptNotification]],
                Request(OpSelect, type, 0))

\* a variant of restarting that always resumes
restartingNever(s, offset) == FALSE

\* this.forceRestart && offset > 0
restarting(s, offset) == s.forceRestart /\ offset > 0

\* the response to SELECT
selectReceived(s) ==
    LET r == s.response
        buffer == Buffer(s)
        restart == restarting(s, r.offset)
        offset == IF restart THEN 0 ELSE r.offset
        s0 == [s EXCEPT !.selected = TRUE, !.reported = r, !.maxSize = r.maxSize]
    IN  IF ~restart /\ s.type = TypeCommand /\ r.offset = Len(buffer) /\ checkCrc(buffer, r.crc)
        THEN transferred(log(s0, "init packet already available, skipping transfer"))
        ELSE LET s1 == IF restart THEN log(s0, "Restarting")
                       ELSE IF offset = 0 THEN log(s0, "Starting fresh transfer")
                       ELSE s0
                 s2 == [s1 EXCEPT !.currentObjectType = IF s.type = TypeCommand THEN "init" ELSE "firmware",
                                  !.totalBytes = Len(buffer),
                                  !.sentBytes = offset,
                                  !.validatedBytes = offset,
                                  !.packetsSentSincePRN = 0]
             IN  transferObject(emitProgress(s2), offset)

(***************************************************************************)
(* calculateSmartSpeed: TRUE when the failed window is to be retried       *)
(***************************************************************************)
CeilHalf(n) == (n + 1) \div 2

Max(a, b) == IF a > b THEN a ELSE b

\* a variant of defaultStrategy that halves rounding down
defaultStrategyFloor(newPrn, newSize) ==
    IF newSize > MinPacketSize
    THEN [prn |-> newPrn, packetSize |-> Max(MinPacketSize, newSize \div 2), changed |-> TRUE]
    ELSE IF newPrn > 1
    THEN [prn |-> newPrn \div 2, packetSize |-> newSize, changed |-> TRUE]
    ELSE IF newPrn = 0
    THEN [prn |-> SafePrn, packetSize |-> newSize, changed |-> TRUE]
    ELSE [prn |-> newPrn, packetSize |-> newSize, changed |-> FALSE]

\* a variant of defaultStrategy that halves the packet size without the
\* floor of 20
defaultStrategyUnbounded(newPrn, newSize) ==
    IF newSize > MinPacketSize
    THEN [prn |-> newPrn, packetSize |-> CeilHalf(newSize), changed |-> TRUE]
    ELSE IF newPrn > 1
    THEN [prn |-> CeilHalf(newPrn), packetSize |-> newSize, changed |-> TRUE]
    ELSE IF newPrn = 0
    THEN [prn |-> SafePrn, packetSize |-> newSize, changed |-> TRUE]
    ELSE [prn |-> newPrn, packetSize |-> newSize, changed |-> FALSE]

\* calculateSmartSpeed: the default strategy
defaultStrategy(newPrn, newSize) ==
    IF newSize > MinPacketSize
    THEN [prn |-> newPrn, packetSize |-> Max(MinPacketSize, CeilHalf(newSize)), changed |-> TRUE]
    ELSE IF newPrn > 1
    THEN [prn |-> CeilHalf(newPrn), packetSize |-> newSize, changed |-> TRUE]
    ELSE IF newPrn = 0
    THEN [prn |-> SafePrn, packetSize |-> newSize, changed |-> TRUE]
    ELSE [prn |-> newPrn, packetSize |-> newSize, changed |-> FALSE]

\* a variant of calculateSmartSpeed that degrades after two retries
calculateSmartSpeedEarly(s) ==
    IF ~s.enableSmartSpeed THEN [s |-> s, retry |-> FALSE]
    ELSE IF s.retriesAtCurrentSpeed + 1 < MaxRetriesAtSpeed
    THEN [s |-> log([s EXCEPT !.retriesAtCurrentSpeed = @ + 1], "Smart Speed: Retrying"),
          retry |-> TRUE]
    ELSE [s |-> log([s EXCEPT !.retriesAtCurrentSpeed = 0,
                              !.packetSize = Max(MinPacketSize, CeilHalf(@))],
                    "Smart Speed: Degrading"),
          retry |-> TRUE]

\* a variant of calculateSmartSpeed that retries whether or not Smart Speed
\* is enabled
calculateSmartSpeedRegardless(s) ==
    [s |-> log([s EXCEPT !.retriesAtCurrentSpeed = @ + 1], "Smart Speed: Retrying"),
     retry |-> TRUE]

\* enableSmartSpeed as a function (SmartSpeedCallback): the results of its
\* successive calls; it returns null once they are used up.  A boolean
\* enableSmartSpeed is no function.
Null == [null |-> TRUE, prn |-> 0, packetSize |-> 0]
Result(prn, packetSize) == [null |-> FALSE, prn |-> prn, packetSize |-> packetSize]
NoPolicy == [fn |-> FALSE, results |-> <<>>]
Callback(results) == [fn |-> TRUE, results |-> results]

\* this.enableSmartSpeed(error, newPrn, newSize)
callPolicy(s, newPrn, newSize) ==
    LET result == IF s.policy.results = <<>> THEN Null ELSE Head(s.policy.results)
    IN  [s |-> [s EXCEPT !.consults = @ + 1,
                         !.policy.results = IF @ = <<>> THEN @ ELSE Tail(@)],
         new |-> IF result.null
                 THEN [prn |-> newPrn, packetSize |-> newSize, changed |-> FALSE]
                 ELSE [prn |-> result.prn, packetSize |-> result.packetSize,
                       changed |-> TRUE]]

calculateSmartSpeed(s) ==
    IF ~s.enableSmartSpeed THEN [s |-> s, retry |-> FALSE]
    ELSE IF s.retriesAtCurrentSpeed + 1 <= MaxRetriesAtSpeed
    THEN [s |-> log([s EXCEPT !.retriesAtCurrentSpeed = @ + 1], "Smart Speed: Retrying"),
          retry |-> TRUE]
    ELSE LET s1 == [s EXCEPT !.retriesAtCurrentSpeed = 0]
             called == callPolicy(s1, s.packetReceiptNotification, s.packetSize)
             s2 == IF s.policy.fn THEN called.s ELSE s1
             new == IF s.policy.fn THEN called.new
                    ELSE defaultStrategy(s.packetReceiptNotification, s.packetSize)
         IN  IF new.changed
             THEN [s |-> log([s2 EXCEPT !.packetReceiptNotification = new.prn,
                                        !.packetSize = new.packetSize],
                             "Smart Speed: Degrading"),
                   retry |-> TRUE]
             ELSE [s |-> [s2 EXCEPT !.exhausted = TRUE], retry |-> FALSE]

\* the catch handler of the innermost pending transferObject(offset)
catch(s) ==
    LET offset == s.frames[Len(s.frames)]
        r == calculateSmartSpeed([s EXCEPT !.frames = SubSeq(@, 1, Len(@) - 1)])
    IN  IF r.retry
        THEN LET s1 == resetWriteQueue(r.s)
             IN  IF s1.packetReceiptNotification > 0
                 THEN sendControl([s1 EXCEPT !.retryAt = offset],
                                  Request(OpSetPrn, 0, s1.packetReceiptNotification))
                 ELSE transferObject([s1 EXCEPT !.packetsSentSincePRN = 0], offset)
        ELSE r.s

(***************************************************************************)
(* Initial states: a SecureDfu just constructed and configured by the      *)
(* caller, the two images of the package, and a target in a state a        *)
(* previous update can have left it in.                                    *)
(***************************************************************************)
NoResponse == Response(0, 0, 0, 0, 0, 0)

SecureDfu(cfg, firmware) ==
    [notifyFns |-> {}, controlChar |-> FALSE, packetChar |-> FALSE,
     writeQueue |-> EmptyQueue, detached |-> <<>>,
     \* the update() whose promise notifyFns[op], and prnResolver, settles, and
     \* the listeners of characteristicvaluechanged added to controlChar
     waiter |-> [op \in 1..OpSelect |-> 0], prnWaiter |-> 0, notified |-> 0,
     \* the update() call whose locals the fields below are, and the locals
     \* of another update() call made on the instance
     self |-> 1, other |-> <<>>,
     packetSize |-> cfg.packetSize,
     packetReceiptNotification |-> cfg.packetReceiptNotification,
     forceRestart |-> cfg.forceRestart,
     enableSmartSpeed |-> cfg.enableSmartSpeed,
     \* enableSmartSpeed is a function: what its calls return, in order, and
     \* the number of calls made
     policy |-> NoPolicy, consults |-> 0,
     delay |-> cfg.delay,
     retriesAtCurrentSpeed |-> 0, totalBytes |-> 0, sentBytes |-> 0, validatedBytes |-> 0,
     packetsSentSincePRN |-> 0, prnResolver |-> FALSE, currentObjectType |-> "unknown",
     \* update(device, init, firmware) and the locals of its calls
     init |-> InitData(cfg.initLen), firmware |-> firmware,
     pc |-> "idle", op |-> 0, type |-> 0, maxSize |-> 0, start |-> 0, end |-> 0,
     dataStart |-> 0, retryAt |-> -1, frames |-> <<>>, error |-> "", response |-> NoResponse,
     \* pending timers of the PRN waits: of the current wait, of earlier ones
     prnTimer |-> FALSE, staleTimers |-> 0,
     \* the listeners and what they have received
     listeners |-> PlainListeners,
     reached |-> [log |-> 0, progress |-> 0], thrown |-> <<>>,
     logged |-> {}, progress |-> [object |-> "unknown", totalBytes |-> 0,
                                   sentBytes |-> 0, validatedBytes |-> 0],
     \* history of the current image, for the properties
     selected |-> FALSE, reported |-> NoResponse,
     firstCreate |-> NoCreate, wrotePacket |-> FALSE, bytesWritten |-> {},
     created |-> {},
     busyFailed |-> 0, completed |-> {},
     \* calculateSmartSpeed has found nothing to change, and returned false
     exhausted |-> FALSE,
     \* a packet receipt notification was handled during a PRN wait and
     \* found no resolver
     lostPrn |-> FALSE,
     violation |-> "",
     unissued |-> FALSE,
     \* the rejections since the SELECT, and the parameters at the SELECT
     rejections |-> 0,
     atSelect |-> [packetSize |-> cfg.packetSize, prn |-> cfg.packetReceiptNotification]]

Configs ==
    [packetSize : {SmallPacket, LargePacket},
     packetReceiptNotification : {0, PrnEvery},
     forceRestart : BOOLEAN,
     enableSmartSpeed : BOOLEAN,
     delay : {0},
     initLen : {0, InitLen}]
    \cup
    [packetSize : {SmallPacket, LargePacket},
     packetReceiptNotification : {0, PrnEvery},
     forceRestart : BOOLEAN,
     enableSmartSpeed : {FALSE},
     delay : {1},
     initLen : {InitLen}]

Device(whole, initPacket, firmware, object) ==
    [maxObjectSize |-> MaxObjectSize, mtu |-> DefaultMtu, prnInterval |-> 0, packetsReceivedSincePrn |-> 0,
     currentObject |-> object,
     flashStorage |-> [initPacket |-> initPacket, firmware |-> firmware],
     forceExtendedError |-> 0, forceExtendedCode |-> 0, forceCrcMismatch |-> FALSE,
     \* the tests' wrapper of packetChar.writeValue: failures to inject, and
     \* injected so far
     failures |-> 0, failureCount |-> 0,
     wholeImage |-> whole, prnTimers |-> 0]

Fresh(whole) == Device(whole, <<>>, <<>>, NoObject)

\* NordicDfuDevice as the tests prepare it: the init packet of the package
\* persisted and selected, the init packet of another package selected, a
\* data object that an interrupted update has left
Prepared(init, firmware) ==
    {Device(FALSE, init, <<>>, [type |-> TypeCommand, data |-> init]),
     Device(FALSE, <<>>, <<>>, [type |-> TypeCommand, data |-> Corrupted(InitData(InitLen))])}
    \cup {Device(FALSE, init, <<>>, [type |-> TypeData, data |-> Slice(firmware, 0, k)]) :
             k \in 1..Len(firmware)}

\* a target that counts from the start of the image, after an update of the
\* same package was interrupted, or after an update of another package (a
\* buffer that differs from the image)
Stale(init, firmware) ==
    {Device(TRUE, <<>>, <<>>, [type |-> TypeCommand, data |-> b]) :
        b \in {Slice(init, 0, n) : n \in 1..Len(init)}}
    \cup {Device(TRUE, b, <<>>, NoObject) : b \in {init, Corrupted(InitData(InitLen))} \ {<<>>}}
    \cup {Device(TRUE, init, Slice(firmware, 0, k), NoObject) :
             k \in {n \in 1..Len(firmware) : n % MaxObjectSize = 0 \/ n = Len(firmware)}}
    \cup {Device(TRUE, init, Slice(firmware, 0, k - 1 - ((k - 1) % MaxObjectSize)),
                 [type |-> TypeData,
                  data |-> Slice(firmware, k - 1 - ((k - 1) % MaxObjectSize), k)]) :
             k \in 1..Len(firmware)}
    \cup {Device(TRUE, init, Corrupted(Slice(firmware, 0, MaxObjectSize)), NoObject)}

\* NordicDfuDevice config: forceExtendedError, forceCrcMismatch, mtu; a target
\* whose packet writes the test makes fail 3 times, and 4 times
Faulty(whole) ==
    {[Fresh(whole) EXCEPT !.forceExtendedError = OpCreate, !.forceExtendedCode = code] :
        code \in {ExtFwVersion, ExtInsufficientSpace}}
    \cup
    {[Fresh(whole) EXCEPT !.forceCrcMismatch = TRUE],
     [Fresh(whole) EXCEPT !.mtu = SmallMtu]}
    \cup {[Fresh(whole) EXCEPT !.failures = n] : n \in {MaxRetriesAtSpeed, MaxRetriesAtSpeed + 1}}

(***************************************************************************)
(* SecureDfuPackage.  Objects live in a heap: an object is a function from *)
(* its property names to values, a value a string or a reference to an     *)
(* object.  JSON text is a tree without identities.                        *)
(***************************************************************************)
Str(s) == [ref |-> 0, str |-> s]
Ref(id) == [ref |-> id, str |-> ""]

Text(s) == [isObj |-> FALSE, str |-> s, props |-> <<>>]
Obj(props) == [isObj |-> TRUE, str |-> "", props |-> props]

\* manifest.json: {"manifest": {<kind>: {"bin_file": ..., "dat_file": ...}}}
ManifestEntry(kind) ==
    Obj([f \in {"bin_file", "dat_file"} |->
            Text(kind \o (IF f = "bin_file" THEN ".bin" ELSE ".dat"))])

ManifestJson(kinds) == [kind \in kinds |-> ManifestEntry(kind)]

\* the archives: with a manifest of these kinds and the files it names,
\* without manifest.json, with a manifest.json that is an object without the
\* manifest key ({}), that is the text null, and that is not JSON
Buffers ==
    {[file |-> TRUE, json |-> "object", key |-> TRUE, manifest |-> ManifestJson(kinds),
      files |-> {kind \o ext : kind \in kinds, ext \in {".bin", ".dat"}}] :
        kinds \in {{"application"}, {"bootloader", "application"},
                   {"softdevice", "bootloader"}, {"softdevice_bootloader"}}}
    \cup
    {[file |-> FALSE, json |-> "none", key |-> FALSE, manifest |-> <<>>, files |-> {}]}
    \cup
    {[file |-> TRUE, json |-> j, key |-> FALSE, manifest |-> <<>>, files |-> {}] :
        j \in {"object", "null", "invalid"}}

\* JSON.stringify
RECURSIVE stringify(_, _)
stringify(heap, id) ==
    [k \in DOMAIN heap[id] |->
        IF heap[id][k].ref = 0 THEN Text(heap[id][k].str)
        ELSE Obj(stringify(heap, heap[id][k].ref))]

\* JSON.parse: every object of the text is a new object of the heap
RECURSIVE parse(_, _)
RECURSIVE parseProps(_, _, _, _)
parse(heap, props) ==
    LET id == Len(heap) + 1
    IN  [heap |-> parseProps(Append(heap, <<>>), id, props, DOMAIN props), ref |-> id]

parseProps(heap, id, props, keys) ==
    IF keys = {} THEN heap
    ELSE LET k == CHOOSE x \in keys : TRUE
             r == IF props[k].isObj THEN parse(heap, props[k].props)
                  ELSE [heap |-> heap, ref |-> 0]
             value == IF props[k].isObj THEN Ref(r.ref) ELSE Str(props[k].str)
             obj == r.heap[id]
         IN  parseProps([r.heap EXCEPT ![id] = [kk \in DOMAIN obj \cup {k} |->
                                                   IF kk = k THEN value ELSE obj[kk]]],
                        id, props, keys \ {k})

\* new SecureDfuPackage(buffer); held, mutations and image are the caller's:
\* the manifests it has read, the changes it has made to them, and the
\* result of its last getBaseImage or getAppImage call
NoImage == [type |-> "none", initFile |-> "", imageFile |-> "", initData |-> "", imageData |-> ""]

SecureDfuPackage(buffer) ==
    [buffer |-> buffer, zipFile |-> FALSE, _manifest |-> 0, heap |-> <<>>,
     \* the promise of load(): "pending", "resolved", or the error it was
     \* rejected with
     loaded |-> "pending",
     held |-> <<>>, mutations |-> 0, image |-> NoImage, after |-> 0]

NoManifest == "Unable to find manifest, is this a proper DFU package?"

\* load(): no manifest.json throws; JSON.parse throws a SyntaxError on what is
\* not JSON; .manifest of null throws a TypeError; _manifest =
\* JSON.parse(content).manifest is undefined without the key, and load()
\* resolves
load(p) ==
    IF ~p.buffer.file THEN [p EXCEPT !.zipFile = TRUE, !.loaded = NoManifest]
    ELSE IF p.buffer.json = "invalid" THEN [p EXCEPT !.zipFile = TRUE, !.loaded = "SyntaxError"]
    ELSE IF p.buffer.json = "null" THEN [p EXCEPT !.zipFile = TRUE, !.loaded = "TypeError"]
    ELSE IF ~p.buffer.key THEN [p EXCEPT !.zipFile = TRUE, !._manifest = 0, !.loaded = "resolved"]
    ELSE LET r == parse(p.heap, p.buffer.manifest)
         IN  [p EXCEPT !.zipFile = TRUE, !.heap = r.heap, !._manifest = r.ref,
                       !.loaded = "resolved"]

\* a variant of the getter that copies the manifest object and shares its entries
manifestShallow(p) ==
    IF p._manifest # 0
    THEN [heap |-> Append(p.heap, p.heap[p._manifest]), ref |-> Len(p.heap) + 1]
    ELSE [heap |-> p.heap, ref |-> 0]

\* get manifest(): JSON.parse(JSON.stringify(this._manifest)), or null
manifest(p) ==
    IF p._manifest # 0
    THEN parse(p.heap, stringify(p.heap, p._manifest))
    ELSE [heap |-> p.heap, ref |-> 0]

\* entry.dat_file, entry.bin_file
property(heap, entry, name) ==
    IF entry.ref # 0 /\ name \in DOMAIN heap[entry.ref] THEN heap[entry.ref][name].str
    ELSE "undefined"

\* zipFile.file(name).async("arraybuffer"): the bytes go by the name of the file
NullImage == [NoImage EXCEPT !.type = "null"]
TypeError == [NoImage EXCEPT !.type = "TypeError"]

\* getImage: the first of the types the manifest has
getImage(p, types) ==
    IF p._manifest = 0 THEN NullImage
    ELSE LET found == {i \in 1..Len(types) : types[i] \in DOMAIN p.heap[p._manifest]}
         IN  IF found = {} THEN NullImage
             ELSE LET type == types[CHOOSE i \in found : \A j \in found : i <= j]
                      entry == p.heap[p._manifest][type]
                      initFile == property(p.heap, entry, "dat_file")
                      imageFile == property(p.heap, entry, "bin_file")
                  IN  IF {initFile, imageFile} \subseteq p.buffer.files
                      THEN [type |-> type, initFile |-> initFile, imageFile |-> imageFile,
                            initData |-> initFile, imageData |-> imageFile]
                      ELSE TypeError

getBaseImage(p) == getImage(p, <<"softdevice", "bootloader", "softdevice_bootloader">>)

getAppImage(p) == getImage(p, <<"application">>)

\* the objects a reference leads to
RECURSIVE objects(_, _)
objects(heap, id) ==
    IF id = 0 THEN {}
    ELSE {id} \cup UNION {objects(heap, heap[id][k].ref) : k \in DOMAIN heap[id]}

\* addEventListener: two listeners of one event type, of which the first throws
ThrowingListeners ==
    {[PlainListeners EXCEPT ![eventType] = <<"throws", "plain">>] : eventType \in {"log", "progress"}}

\* addEventListener: a log listener that throws at the report of an error
StrictListeners == [PlainListeners EXCEPT !.log = <<"strict", "plain">>]

\* the firmware has FwLen bytes for a target that counts from the start of
\* the image, and the bytes of one window for NordicDfuDevice; a firmware
\* whose last window is shorter than the others, and an empty one, go to a
\* fresh target
Init ==
    /\ \E cfg \in Configs, whole \in BOOLEAN :
          LET init == InitData(cfg.initLen)
              firmware == FirmwareData(IF whole THEN FwLen ELSE MaxObjectSize)
          IN  \/ /\ dfu = SecureDfu(cfg, firmware)
                 /\ \/ dev = Fresh(whole) /\ gatt = [connected |-> FALSE, faults |-> 0]
                    \/ /\ dev \in Faulty(whole) \cup (IF whole THEN Stale(init, firmware)
                                                               ELSE Prepared(init, firmware))
                       /\ gatt = [connected |-> FALSE, faults |-> 1]
              \/ /\ dfu \in {[SecureDfu(cfg, firmware) EXCEPT !.listeners = ls] :
                                 ls \in ThrowingListeners}
                 /\ dev = Fresh(whole)
                 /\ gatt = [connected |-> FALSE, faults |-> 1]
              \/ /\ whole
                 /\ dfu \in {SecureDfu(cfg, FirmwareData(n)) : n \in {0, FwLen - 1}}
                 /\ dev = Fresh(whole)
                 /\ gatt = [connected |-> FALSE, faults |-> 1]
              \/ /\ ~whole
                 /\ dfu = [SecureDfu(cfg, firmware) EXCEPT !.listeners = StrictListeners]
                 /\ dev \in {d \in Faulty(whole) : d.forceExtendedError = OpCreate}
                 /\ gatt = [connected |-> FALSE, faults |-> MaxFaults]
    /\ notifications = <<>>
    /\ pkg = SecureDfuPackage(CHOOSE b \in Buffers : ~b.file)

(***************************************************************************)
(* Chains of the write queue: 0 is this.writeQueue, i > 0 a detached one.  *)
(***************************************************************************)
Chains == 0..Len(dfu.detached)

JobsOf(s, c) == IF c = 0 THEN s.writeQueue.jobs ELSE s.detached[c]

Outstanding(job) == job.phase \in {"inflight", "delivered"}

RemoveAt(seq, i) == SubSeq(seq, 1, i - 1) \o SubSeq(seq, i + 1, Len(seq))

\* the chain goes on with jobs, or has ended with error
setChain(s, c, jobs, error) ==
    IF c = 0 THEN [s EXCEPT !.writeQueue = [jobs |-> jobs, error |-> error]]
    ELSE IF jobs = <<>> THEN [s EXCEPT !.detached = RemoveAt(@, c)]
    ELSE [s EXCEPT !.detached[c] = jobs]

\* the running job of chain c throws e: every submission of the chain fails
chainFailed(s, c, e) ==
    setChain(allFailed(passedOver(s, Tail(JobsOf(s, c))), JobsOf(s, c), e), c, <<>>, e)

\* a variant of attemptsLeft that allows one attempt more
attemptsLeftOneMore(attempts) == attempts >= 0

\* queuedWrite: while (attempts > 0)
attemptsLeft(attempts) == attempts > 0

InProgress == "GATT operation in progress"
BusyError == "GATT write failed (Device Busy)"

\* a variant of inProgress that takes every error for the busy error
inProgressAny(e) == TRUE

\* e.message.includes("in progress")
inProgress(e) == e = InProgress

\* queuedWrite's catch: the writeValue call of the running job of chain c has
\* thrown e.  The busy error: attempts--, and 150 ms later the loop calls
\* writeValue again or, with no attempt left, throws the device-busy error;
\* any other error is thrown on
writeRejected(s, c, e) ==
    LET job == Head(JobsOf(s, c))
    IN  IF inProgress(e)
        THEN IF attemptsLeft(job.attempts - 1)
             THEN setChain(s, c, <<[job EXCEPT !.attempts = @ - 1, !.calls = @ + 1,
                                               !.busy = TRUE]>> \o Tail(JobsOf(s, c)), "")
             ELSE chainFailed([s EXCEPT !.busyFailed = job.calls], c, BusyError)
        ELSE chainFailed(s, c, e)

\* the running job of chain c returns: the next job of the chain runs, and
\* transferData goes on if it was the packet write it waits for
chainAdvanced(s, c) ==
    LET job == Head(JobsOf(s, c))
        r == startJob(s, Tail(JobsOf(s, c)))
        s1 == setChain(r.s, c, r.jobs, r.error)
    IN  IF job.awaited /\ job.msg.opcode = 0 THEN packetWritten(focus(s1, job.owner)) ELSE s1

\* the promise of sendOperation of update() call u is settled by the response
RECURSIVE settled(_, _)
settled(jobs, u) ==
    IF jobs = <<>> THEN <<>>
    ELSE <<[Head(jobs) EXCEPT !.awaited = (@ /\ (Head(jobs).msg.opcode = 0 \/ Head(jobs).owner # u))]>>
         \o settled(Tail(jobs), u)

responded(s) ==
    [s EXCEPT !.writeQueue.jobs = settled(@, s.self),
              !.detached = [i \in 1..Len(@) |-> settled(@[i], s.self)]]

(***************************************************************************)
(* What a listener has thrown leaves the handler that dispatched the       *)
(* event, with the instance as it was at the throw.                        *)
(***************************************************************************)
\* in a callback of the promise chain of update(), or in an async function:
\* the promise is rejected with it
rejectedByListener(s) ==
    IF s.thrown = <<>> THEN s ELSE reject(s.thrown[1], ListenerError)

\* in handleNotification, a listener of characteristicvaluechanged: it goes
\* to the caller of the listener, and the rest of the handler is not run
thrownToCaller(s) ==
    IF s.thrown = <<>> THEN s ELSE s.thrown[1]

\* a handler called for an update() call has returned
finished(s) == focus(rejectedByListener(s), 1)

\* a variant of resolved that resolves every call that waits for anything
RECURSIVE resolvedAll(_, _)
resolvedAll(s, updates) ==
    IF updates = {} THEN focus(s, 1)
    ELSE LET u == CHOOSE v \in updates : TRUE
             t == focus(s, u)
         IN  resolvedAll([t EXCEPT !.pc = IF @ \in {"disconnecting", "await"} THEN "done" ELSE @],
                         updates \ {u})

\* the listener update() adds before it calls device.gatt.disconnect(), of
\* every call that waits for the disconnection
RECURSIVE resolved(_, _)
resolved(s, updates) ==
    IF updates = {} THEN focus(s, 1)
    ELSE LET u == CHOOSE v \in updates : TRUE
             t == focus(s, u)
         IN  resolved([t EXCEPT !.pc = IF @ = "disconnecting" THEN "done" ELSE @], updates \ {u})

\* the update() calls made on the instance
Updates == IF dfu.other = <<>> THEN {1} ELSE {1, 2}

(***************************************************************************)
(* update(): connect to the target: a second call is made before the first *)
(* has connected.                                                          *)
(***************************************************************************)
Update(u) ==
    /\ focus(dfu, u).pc = "idle"
    /\ \A v \in Updates : focus(dfu, v).pc \in {"idle", "connecting"}
    /\ dfu' = focus([focus(dfu, u) EXCEPT !.retriesAtCurrentSpeed = 0, !.pc = "connecting"], 1)
    /\ gatt' = [gatt EXCEPT !.connected = TRUE]
    /\ UNCHANGED <<dev, notifications, pkg>>

\* connect(): the characteristics are found and notifications started
Connected(u) ==
    /\ focus(dfu, u).pc = "connecting"
    /\ gatt.connected
    /\ LET s == log(log([focus(dfu, u) EXCEPT !.controlChar = TRUE, !.packetChar = TRUE,
                                              !.notified = @ + 1],
                        "connected to gatt server"), "enabled control notifications")
       IN  dfu' = finished(IF s.packetReceiptNotification > 0
                  THEN sendControl([log(s, "enabling PRNs") EXCEPT !.retryAt = -1],
                                   Request(OpSetPrn, 0, s.packetReceiptNotification))
                  ELSE select(s, TypeCommand))
    /\ UNCHANGED <<dev, notifications, gatt, pkg>>

\* gattConnect(): the link has dropped before the service is found
ConnectFailed(u) ==
    /\ focus(dfu, u).pc = "connecting"
    /\ ~gatt.connected
    /\ dfu' = finished([log(focus(dfu, u), "connected to gatt server") EXCEPT
                  !.pc = "failed", !.error = "Unable to find DFU service"])
    /\ UNCHANGED <<dev, notifications, gatt, pkg>>

(***************************************************************************)
(* The transport: a writeValue call reaches the target, is rejected as     *)
(* busy ("GATT operation in progress"), fails, or returns.                 *)
(***************************************************************************)
\* what the write a job carries does to the target
written(d, job) ==
    IF job.ch = "control" THEN handleControlWrite(d, job.msg)
    ELSE handlePacketWrite(d, job.msg)

GattFailed == "GATT operation failed"

\* writeValue as the tests wrap it: the packet write made with
\* packetsSentSincePRN = FailAt throws while failureCount < failures
writeValue(d, s, job) ==
    IF job.ch = "packet" /\ d.failureCount < d.failures /\ s.packetsSentSincePRN = FailAt
    THEN [dev |-> [d EXCEPT !.failureCount = @ + 1], out |-> <<>>, error |-> GattFailed]
    ELSE written(d, job)

\* the transport serves the requests in the order they were made: a write
\* after the discovery of every update() call that has started
WriteDeliver(c) ==
    /\ gatt.connected
    /\ \A u \in Updates : focus(dfu, u).pc # "connecting"
    /\ JobsOf(dfu, c) # <<>>
    /\ Head(JobsOf(dfu, c)).phase = "inflight"
    /\ LET job == Head(JobsOf(dfu, c))
           r == writeValue(dev, dfu, job)
       IN  \* a packet that would start one timer too many waits for a timer to fire
           /\ r.dev.prnTimers <= MaxPrnTimers
           /\ Len(r.dev.flashStorage.firmware) <= MaxFlash
           /\ dev' = r.dev
           /\ notifications' = notifications \o r.out
           /\ dfu' = finished(IF r.error # "" THEN writeRejected(dfu, c, r.error)
                     ELSE setChain(dfu, c, <<[job EXCEPT !.phase = "delivered"]>>
                                             \o Tail(JobsOf(dfu, c)), ""))
    /\ UNCHANGED <<gatt, pkg>>

\* the transport rejects the call as busy
WriteBusy(c) ==
    /\ gatt.connected
    /\ JobsOf(dfu, c) # <<>>
    /\ Head(JobsOf(dfu, c)).phase = "inflight"
    /\ LET job == Head(JobsOf(dfu, c))
       IN  /\ job.busy \/ gatt.faults < MaxFaults
           /\ gatt' = IF job.busy THEN gatt ELSE [gatt EXCEPT !.faults = @ + 1]
           /\ dfu' = finished(writeRejected(dfu, c, InProgress))
    /\ UNCHANGED <<dev, notifications, pkg>>

\* the call fails with another error
WriteFail(c) ==
    /\ JobsOf(dfu, c) # <<>>
    /\ Head(JobsOf(dfu, c)).phase = "inflight"
    /\ ~gatt.connected \/ gatt.faults < MaxFaults
    /\ gatt' = IF gatt.connected THEN [gatt EXCEPT !.faults = @ + 1] ELSE gatt
    /\ dfu' = finished(writeRejected(dfu, c, GattFailed))
    /\ UNCHANGED <<dev, notifications, pkg>>

WriteSettle(c) ==
    /\ JobsOf(dfu, c) # <<>>
    /\ Head(JobsOf(dfu, c)).phase = "delivered"
    /\ dfu' = finished(chainAdvanced(dfu, c))
    /\ UNCHANGED <<dev, notifications, gatt, pkg>>

(***************************************************************************)
(* handleNotification: a packet receipt notification, or the response to   *)
(* the operation a waiter is registered for.                               *)
(***************************************************************************)
receiptNotified(s, n) ==
    LET s1 == emitProgress([s EXCEPT !.validatedBytes = n.offset])
        s2 == focus(s1, s1.prnWaiter)
    IN  IF s1.prnResolver
        THEN prnReleased([s2 EXCEPT !.prnResolver = FALSE, !.prnWaiter = 0,
                                    !.prnTimer = FALSE,
                                    !.staleTimers = IF s2.prnTimer THEN @ + 1 ELSE @])
        ELSE [s1 EXCEPT !.lostPrn = @ \/ s1.pc = "prnWait"]

\* the waiter under n.op is the one the update() call that registered last
\* has put there
responseReceived(s0, n) ==
    IF n.op \notin s0.notifyFns THEN s0
    ELSE LET s == focus(s0, s0.waiter[n.op])
             s1 == [s EXCEPT !.notifyFns = @ \ {n.op}, !.waiter[n.op] = 0]
             \* this.log(error) comes before the reject and the delete
             s2 == [log(s, ErrorMessage(n)) EXCEPT !.notifyFns = @ \ {n.op}, !.waiter[n.op] = 0]
             waiting == s.pc = "await" /\ s.op = n.op
         IN  IF n.result = ResSuccess
             THEN IF waiting THEN responded([s1 EXCEPT !.pc = "settle", !.response = n]) ELSE s1
             ELSE IF waiting THEN responded(reject(s2, ErrorMessage(n)))
                  ELSE s2

Unrecognised == "Unrecognised control response"

\* a variant of handleNotification that does not look at the first byte
handleNotificationAny(s, n) ==
    IF n.hdr = OpChecksum THEN receiptNotified(s, n) ELSE responseReceived(s, n)

\* the error thrown goes to the caller of the listener; violation records it
handleNotification(s, n) ==
    IF n.hdr = OpChecksum THEN receiptNotified(s, n)
    ELSE IF n.hdr \notin OPERATIONS_RESPONSE THEN [s EXCEPT !.violation = Unrecognised]
    ELSE responseReceived(s, n)

\* every listener of characteristicvaluechanged handles the notification
RECURSIVE handledBy(_, _, _)
handledBy(s, n, listeners) ==
    IF listeners = 0 THEN s ELSE handledBy(handleNotification(s, n), n, listeners - 1)

\* a response of the target is dispatched
HandleNotification ==
    /\ notifications # <<>>
    /\ dfu' = focus(thrownToCaller(handledBy(dfu, Head(notifications), dfu.notified)), 1)
    /\ notifications' = Tail(notifications)
    /\ UNCHANGED <<dev, gatt, pkg>>

\* a timer of the target fires: the packet receipt notification, if the
\* target still has an object, is dispatched
SendChecksumNotification ==
    /\ dev.prnTimers > 0
    /\ dev' = [dev EXCEPT !.prnTimers = @ - 1]
    /\ LET out == sendChecksumNotification(dev)
       IN  dfu' = focus(thrownToCaller(IF out = <<>> THEN dfu
                                       ELSE handledBy(dfu, out[1], dfu.notified)), 1)
    /\ UNCHANGED <<notifications, gatt, pkg>>

(***************************************************************************)
(* sendControl's timer has fired: the step that waited for the response.   *)
(***************************************************************************)
AfterSetPrn(u) ==
    /\ focus(dfu, u).pc = "settle" /\ focus(dfu, u).op = OpSetPrn
    /\ LET s == focus(dfu, u)
       IN  dfu' = finished(IF s.retryAt < 0 THEN select(s, TypeCommand)
                           ELSE transferObject([s EXCEPT !.packetsSentSincePRN = 0], s.retryAt))
    /\ UNCHANGED <<dev, notifications, gatt, pkg>>

AfterSelect(u) ==
    /\ focus(dfu, u).pc = "settle" /\ focus(dfu, u).op = OpSelect
    /\ dfu' = finished(selectReceived(focus(dfu, u)))
    /\ UNCHANGED <<dev, notifications, gatt, pkg>>

AfterCreate(u) ==
    /\ focus(dfu, u).pc = "settle" /\ focus(dfu, u).op = OpCreate
    /\ dfu' = finished(transferData(focus(dfu, u), 0))
    /\ UNCHANGED <<dev, notifications, gatt, pkg>>

AfterChecksum(u) ==
    /\ focus(dfu, u).pc = "settle" /\ focus(dfu, u).op = OpChecksum
    /\ dfu' = finished(checksumReceived(focus(dfu, u)))
    /\ UNCHANGED <<dev, notifications, gatt, pkg>>

AfterExecute(u) ==
    /\ focus(dfu, u).pc = "settle" /\ focus(dfu, u).op = OpExecute
    /\ dfu' = finished(executed(focus(dfu, u)))
    /\ UNCHANGED <<dev, notifications, gatt, pkg>>

\* transferData: setTimeout(r, this.delay) after the packet write
PacketDelayDone(u) ==
    /\ focus(dfu, u).pc = "packetDelay"
    /\ dfu' = finished(packetSent(focus(dfu, u)))
    /\ UNCHANGED <<dev, notifications, gatt, pkg>>

\* the 3000 ms timer of the PRN wait in progress
PrnTimeout(u) ==
    /\ focus(dfu, u).prnTimer
    /\ LET s == focus(dfu, u)
       IN  dfu' = finished(IF s.prnResolver
                           THEN prnReleased([s EXCEPT !.prnTimer = FALSE, !.prnResolver = FALSE,
                                                      !.prnWaiter = 0])
                           ELSE [s EXCEPT !.prnTimer = FALSE])
    /\ UNCHANGED <<dev, notifications, gatt, pkg>>

\* the timer of an earlier PRN wait, which a notification had ended: it is
\* never cleared, and resolves a promise that is already resolved
StaleTimeout ==
    /\ dfu.staleTimers > 0
    /\ dfu' = [dfu EXCEPT !.staleTimers = @ - 1, !.prnResolver = FALSE, !.prnWaiter = 0]
    /\ UNCHANGED <<dev, notifications, gatt, pkg>>

\* a rejection reaches the catch handler of transferObject, or the caller
Catch(u) ==
    /\ focus(dfu, u).pc = "rejected"
    /\ LET s == focus(dfu, u)
       IN  dfu' = finished(IF s.frames = <<>> THEN [s EXCEPT !.pc = "failed"] ELSE catch(s))
    /\ Len(dfu'.detached) <= MaxDetached
    /\ UNCHANGED <<dev, notifications, gatt, pkg>>

\* update(): 500 ms after the init packet, the firmware
PauseDone(u) ==
    /\ focus(dfu, u).pc = "pause"
    /\ dfu' = finished(select(focus(dfu, u), TypeData))
    /\ UNCHANGED <<dev, notifications, gatt, pkg>>

\* gattserverdisconnected: the listener of connect(), and the one update()
\* adds before it calls device.gatt.disconnect()
Disconnected ==
    /\ gatt.connected
    /\ \E u \in Updates : focus(dfu, u).pc \notin {"idle", "done", "failed"}
    /\ (\E u \in Updates : focus(dfu, u).pc = "disconnecting") \/ gatt.faults < MaxFaults
    /\ gatt' = [gatt EXCEPT !.connected = FALSE,
                            !.faults = IF \E u \in Updates : focus(dfu, u).pc = "disconnecting"
                                       THEN @ ELSE @ + 1]
    /\ dfu' = resolved([resetWriteQueue(dfu) EXCEPT !.notifyFns = {},
                                                    !.waiter = [op \in 1..OpSelect |-> 0],
                                                    !.controlChar = FALSE,
                                                    !.packetChar = FALSE], Updates)
    /\ UNCHANGED <<dev, notifications, pkg>>

\* a variant of DisconnectTimeout whose timer rejects the promise
DisconnectTimeoutRejects(u) ==
    /\ focus(dfu, u).pc = "disconnecting"
    /\ dfu' = focus(reject(focus(dfu, u), "Disconnect timeout"), 1)
    /\ UNCHANGED <<dev, notifications, gatt, pkg>>

\* update(): the 5000 ms timer of the final wait
DisconnectTimeout(u) ==
    /\ focus(dfu, u).pc = "disconnecting"
    /\ dfu' = focus([focus(dfu, u) EXCEPT !.pc = "done"], 1)
    /\ UNCHANGED <<dev, notifications, gatt, pkg>>

Next ==
    \/ \E u \in Updates : Update(u)
    \/ \E u \in Updates : Connected(u)
    \/ \E u \in Updates : ConnectFailed(u)
    \/ \E c \in Chains : WriteDeliver(c)
    \/ \E c \in Chains : WriteBusy(c)
    \/ \E c \in Chains : WriteFail(c)
    \/ \E c \in Chains : WriteSettle(c)
    \/ HandleNotification
    \/ SendChecksumNotification
    \/ \E u \in Updates : AfterSetPrn(u)
    \/ \E u \in Updates : AfterSelect(u)
    \/ \E u \in Updates : AfterCreate(u)
    \/ \E u \in Updates : AfterChecksum(u)
    \/ \E u \in Updates : AfterExecute(u)
    \/ \E u \in Updates : PacketDelayDone(u)
    \/ \E u \in Updates : PrnTimeout(u)
    \/ StaleTimeout
    \/ \E u \in Updates : Catch(u)
    \/ \E u \in Updates : PauseDone(u)
    \/ Disconnected
    \/ \E u \in Updates : DisconnectTimeout(u)

Spec == Init /\ [][Next]_vars

(***************************************************************************)
(* Two update() calls on one instance, for the same target and package.    *)
(***************************************************************************)
InitConcurrent ==
    /\ \E cfg \in {c \in Configs : ~c.forceRestart}, whole \in BOOLEAN :
          LET firmware == FirmwareData(IF whole THEN FwLen ELSE MaxObjectSize)
          IN  /\ dfu = [SecureDfu(cfg, firmware) EXCEPT
                           !.other = locals(SecureDfu(cfg, firmware))]
              /\ dev = Fresh(whole)
    /\ gatt = [connected |-> FALSE, faults |-> 0]
    /\ notifications = <<>>
    /\ pkg = SecureDfuPackage(CHOOSE b \in Buffers : ~b.file)

SpecConcurrent == InitConcurrent /\ [][Next]_vars

(***************************************************************************)
(* Smart Speed against a target on which a window fails at every attempt:  *)
(* NordicDfuDevice, whose checksum covers the current object only, given a *)
(* firmware of two windows that differ; a target configured to answer      *)
(* CREATE with an extended error, to report a wrong CRC, or to take short  *)
(* writes only.  The transport does not fail in these runs; it may in the  *)
(* runs without Smart Speed.  What has a timer or is in flight happens in  *)
(* the end.                                                                *)
(***************************************************************************)
\* the functions given as enableSmartSpeed: one that returns null, one that
\* sets single-byte packets acknowledged one by one, one that turns the
\* notifications off; each returns null at its second call
Policies ==
    {Callback(<<>>), Callback(<<Result(1, SmallPacket)>>), Callback(<<Result(0, LargePacket)>>)}

InitRetry ==
    /\ \E cfg \in {c \in Configs : ~c.forceRestart /\ c.initLen = InitLen} :
          \/ /\ cfg.enableSmartSpeed
             /\ \E policy \in {NoPolicy} \cup Policies :
                   \/ /\ dfu = [SecureDfu(cfg, FirmwareData(FwLen)) EXCEPT !.policy = policy]
                      /\ dev = Fresh(FALSE)
                   \/ /\ dfu = [SecureDfu(cfg, FirmwareData(MaxObjectSize))
                                   EXCEPT !.policy = policy]
                      /\ dev \in {d \in Faulty(FALSE) : d.failures = 0}
             /\ gatt = [connected |-> FALSE, faults |-> MaxFaults]
          \/ /\ cfg.delay > 0
             /\ dfu = SecureDfu(cfg, FirmwareData(MaxObjectSize))
             /\ dev = Fresh(FALSE)
             /\ gatt = [connected |-> FALSE, faults |-> 0]
    /\ notifications = <<>>
    /\ pkg = SecureDfuPackage(CHOOSE b \in Buffers : ~b.file)

\* the steps of the driver, the transport and the target that are no faults
Progress ==
    \/ Update(1) \/ Connected(1)
    \/ \E c \in Chains : WriteDeliver(c)
    \/ \E c \in Chains : WriteSettle(c)
    \/ HandleNotification \/ SendChecksumNotification
    \/ AfterSetPrn(1) \/ AfterSelect(1) \/ AfterCreate(1) \/ AfterChecksum(1)
    \/ AfterExecute(1) \/ PacketDelayDone(1) \/ PrnTimeout(1) \/ StaleTimeout
    \/ Catch(1) \/ PauseDone(1) \/ DisconnectTimeout(1)

Fairness == WF_vars(Progress)

SpecRetry == InitRetry /\ [][Next]_vars /\ Fairness

(***************************************************************************)
(* A peer that also sends notifications the protocol does not have: the    *)
(* first byte is 0x20 or 0x21, the second any opcode, the third success or *)
(* an error.                                                               *)
(***************************************************************************)
Framings == {AltHeader, AltHeader + 1}

\* the notification is dispatched to the listeners of the control
\* characteristic
Dispatched(n) == focus(thrownToCaller(handledBy(dfu, n, dfu.notified)), 1)

ControlNotified(n) ==
    /\ dfu.notified > 0
    /\ notifications = <<>>
    /\ dfu' = Dispatched(n)
    /\ UNCHANGED <<dev, notifications, gatt, pkg>>

InitFraming ==
    /\ \E cfg \in {c \in Configs : /\ ~c.forceRestart /\ ~c.enableSmartSpeed
                                   /\ c.initLen = InitLen /\ c.packetSize = SmallPacket
                                   /\ c.delay > 0 /\ c.packetReceiptNotification > 0} :
          dfu = SecureDfu(cfg, FirmwareData(FwLen))
    /\ dev = Fresh(TRUE)
    /\ gatt = [connected |-> FALSE, faults |-> 0]
    /\ notifications = <<>>
    /\ pkg = SecureDfuPackage(CHOOSE b \in Buffers : ~b.file)

NextFraming ==
    \/ Next
    \/ \E hdr \in Framings, op \in 1..OpSelect, result \in {ResSuccess, ResFailed} :
          ControlNotified([Response(op, result, 0, MaxObjectSize, 0, 0) EXCEPT !.hdr = hdr])

SpecFraming == InitFraming /\ [][NextFraming]_vars

(***************************************************************************)
(* The package reader and its caller, before update() is called.           *)
(***************************************************************************)
InitPackage ==
    /\ pkg \in {SecureDfuPackage(buffer) : buffer \in Buffers}
    /\ dfu = SecureDfu(CHOOSE cfg \in Configs : TRUE, FirmwareData(FwLen))
    /\ dev = Fresh(TRUE)
    /\ gatt = [connected |-> FALSE, faults |-> 0]
    /\ notifications = <<>>

Load ==
    /\ ~pkg.zipFile
    /\ pkg' = load(pkg)
    /\ UNCHANGED <<dfu, dev, notifications, gatt>>

\* the caller reads pack.manifest and keeps what it gets
ReadManifest ==
    /\ Len(pkg.held) < MaxReads
    /\ LET r == manifest(pkg)
       IN  pkg' = [pkg EXCEPT !.heap = r.heap,
                              !.held = Append(@, [ref |-> r.ref, after |-> pkg.mutations])]
    /\ UNCHANGED <<dfu, dev, notifications, gatt>>

\* the caller sets or deletes a property of an object of a manifest it has read
Mutate ==
    /\ pkg.mutations < MaxMutations
    /\ \E i \in 1..Len(pkg.held) :
          \E id \in objects(pkg.heap, pkg.held[i].ref) :
             \E k \in {"application", "bootloader", "bin_file", "newProp"}, delete \in BOOLEAN :
                LET obj == pkg.heap[id]
                    changed == IF delete THEN [kk \in DOMAIN obj \ {k} |-> obj[kk]]
                               ELSE [kk \in DOMAIN obj \cup {k} |->
                                        IF kk = k THEN Str("modified") ELSE obj[kk]]
                IN  /\ delete => k \in DOMAIN obj
                    /\ pkg' = [pkg EXCEPT !.heap[id] = changed, !.mutations = @ + 1]
    /\ UNCHANGED <<dfu, dev, notifications, gatt>>

GetBaseImage ==
    /\ pkg' = [pkg EXCEPT !.image = getBaseImage(pkg), !.after = pkg.mutations]
    /\ UNCHANGED <<dfu, dev, notifications, gatt>>

GetAppImage ==
    /\ pkg' = [pkg EXCEPT !.image = getAppImage(pkg), !.after = pkg.mutations]
    /\ UNCHANGED <<dfu, dev, notifications, gatt>>

NextPackage ==
    \/ Load
    \/ ReadManifest
    \/ Mutate
    \/ GetBaseImage
    \/ GetAppImage

SpecPackage == InitPackage /\ [][NextPackage]_vars

(***************************************************************************)
(* Properties.                                                             *)
(***************************************************************************)
\* writeValue calls that have not returned, over both characteristics
OutstandingWrites ==
    Cardinality({c \in Chains : JobsOf(dfu, c) # <<>> /\ Outstanding(Head(JobsOf(dfu, c)))})

\* C1: in every reachable state of an update at most one writeValue call is
\* outstanding across the Control and Packet characteristics together
C1_OneWriteOutstanding == OutstandingWrites <= 1

\* C2: whenever update() has completed successfully, the bytes the target has
\* committed for each image kind equal the image exactly
C2_CommittedEqualsImage ==
    dfu.pc = "done" =>
        /\ dev.flashStorage.initPacket = dfu.init
        /\ dev.flashStorage.firmware = dfu.firmware

\* the submissions of request op that have not settled, over all chains
JobsFor(s, op) ==
    UNION {{<<c, i>> : i \in {j \in 1..Len(JobsOf(s, c)) : JobsOf(s, c)[j].msg.opcode = op}} :
              c \in 0..Len(s.detached)}

\* the CRC of a checksum response equals the CRC-32 of image[0..offset]
Matches(s, r) == r.crc = crc32Impl(Slice(Buffer(s), 0, r.offset))

ImageName(type) == IF type = TypeCommand THEN "init" ELSE "firmware"

ExecuteAfterMatch ==
    Cardinality(JobsFor(dfu', OpExecute)) > Cardinality(JobsFor(dfu, OpExecute)) =>
        /\ dfu.pc = "settle" /\ dfu.op = OpChecksum
        /\ dfu.response.op = OpChecksum /\ dfu.response.result = ResSuccess
        /\ Matches(dfu, dfu.response)

MismatchRejects ==
    (dfu.pc = "settle" /\ dfu.op = OpChecksum /\ dfu'.pc # "settle" /\ ~Matches(dfu, dfu.response)) =>
        /\ dfu'.pc = "rejected" /\ dfu'.error = "CRC fail"
        /\ JobsFor(dfu', OpExecute) = {}

RejectionFails ==
    (dfu.pc = "rejected" /\ dfu.error = "CRC fail" /\ ~dfu.enableSmartSpeed) =>
        dfu'.pc \in {"rejected", "failed"} /\ dfu'.error = dfu.error

\* C3: EXECUTE is sent only after a CALCULATE_CHECKSUM response whose CRC
\* equals the CRC-32 of image[0..offset]; on a mismatch no EXECUTE is sent
\* and, with Smart Speed disabled, the update fails with the CRC error
C3_ExecuteOnlyAfterMatchingCrc ==
    /\ [][ExecuteAfterMatch /\ MismatchRejects /\ RejectionFails]_vars
    /\ [](dfu.pc = "failed" /\ dfu.error = "CRC fail" => JobsFor(dfu, OpExecute) = {})

C3_Witness ==
    /\ dfu.pc = "await" /\ dfu.op = OpExecute
    /\ JobsFor(dfu, OpExecute) # {}
    /\ Matches(dfu, dfu.response)
    /\ dfu.response.offset > 0

\* C4: within one image the sentBytes and validatedBytes carried by
\* successive progress events never decrease
C4_ProgressNeverDecreases ==
    [][(dfu.progress.object # "unknown" /\ dfu'.progress.object = dfu.progress.object) =>
          /\ dfu'.progress.sentBytes >= dfu.progress.sentBytes
          /\ dfu'.progress.validatedBytes >= dfu.progress.validatedBytes]_vars

\* C5: in every state during an image transfer,
\* validatedBytes <= sentBytes <= totalBytes
C5_ValidatedSentTotal ==
    dfu.currentObjectType # "unknown" =>
        /\ dfu.validatedBytes <= dfu.sentBytes
        /\ dfu.sentBytes <= dfu.totalBytes

\* the transfer of the current image has completed ("transfer complete")
Completed == dfu.type \in dfu.completed

\* C6 as stated: when an image transfer has completed, the last progress event
\* of the image has sentBytes equal to totalBytes
C6_LastProgressIsTotal ==
    Completed =>
        /\ dfu.progress.object = ImageName(dfu.type)
        /\ dfu.progress.sentBytes = dfu.progress.totalBytes

\* C6, for an image that is not empty: when its transfer has completed, the
\* last progress event of the image has sentBytes equal to totalBytes, the
\* length of the image
C6_LastProgressIsTotalNonEmpty ==
    (Completed /\ Buffer(dfu) # <<>>) =>
        /\ dfu.progress.object = ImageName(dfu.type)
        /\ dfu.progress.sentBytes = dfu.progress.totalBytes
        /\ dfu.progress.totalBytes = Len(Buffer(dfu))

C6_Witness ==
    /\ Completed /\ dfu.type = TypeData
    /\ dfu.progress.object = "firmware"
    /\ dfu.progress.sentBytes = FwLen

\* the SELECT response of the current image has been received
Reported == dfu.selected /\ dfu.type # 0

SkipCase ==
    /\ Reported /\ dfu.type = TypeCommand /\ ~dfu.forceRestart
    /\ dfu.reported.offset = Len(dfu.init)
    /\ dfu.reported.crc = crc32Impl(dfu.init)

\* C7: if SELECT_COMMAND reports offset = len(init) and crc = CRC32(init) and
\* forceRestart is false, no CREATE_COMMAND and no packet write is issued
\* before the firmware's SELECT_DATA, and the skip is logged
C7_SkipInit ==
    SkipCase =>
        /\ dfu.firstCreate = NoCreate /\ ~dfu.wrotePacket
        /\ JobsFor(dfu, OpCreate) = {} /\ JobsFor(dfu, 0) = {}
        /\ "init packet already available, skipping transfer" \in dfu.logged
        /\ dfu.pc = "pause"

C7_Witness ==
    /\ SkipCase /\ dfu.init # <<>>
    /\ dfu.pc = "pause"
    /\ "init packet already available, skipping transfer" \in dfu.logged

RestartCase == Reported /\ dfu.forceRestart /\ dfu.reported.offset > 0

\* C8: if forceRestart is true and SELECT reports a positive offset, the
\* first CREATE covers [0, min(maxObjectSize, len)) and, when the transfer
\* has completed, every byte of the image has been written
C8_ForceRestart ==
    RestartCase =>
        /\ dfu.firstCreate \in {NoCreate, [start |-> 0,
                                            size |-> Min(dfu.reported.maxSize, Len(Buffer(dfu)))]}
        /\ dfu.wrotePacket => dfu.firstCreate # NoCreate
        /\ Completed => dfu.bytesWritten = 1..Len(Buffer(dfu))

C8_Witness ==
    /\ RestartCase /\ Completed
    /\ dfu.reported.offset = Len(Buffer(dfu))
    /\ dfu.bytesWritten = 1..Len(Buffer(dfu))

ResumeCase ==
    /\ Reported /\ ~dfu.forceRestart
    /\ dfu.reported.offset > 0 /\ dfu.reported.offset < Len(Buffer(dfu))

ResumeStart == dfu.reported.offset - (dfu.reported.offset % dfu.reported.maxSize)

\* C9: with forceRestart false and a reported offset strictly between 0 and
\* the image length, the first CREATE opens the window that contains the
\* offset at its start, no byte before that start is written and, when the
\* transfer has completed, every byte from that start on has been written
C9_Resume ==
    ResumeCase =>
        /\ dfu.firstCreate \in {NoCreate,
                                [start |-> ResumeStart,
                                 size |-> Min(dfu.reported.maxSize, Len(Buffer(dfu)) - ResumeStart)]}
        /\ dfu.wrotePacket => dfu.firstCreate # NoCreate
        /\ \A b \in dfu.bytesWritten : b > ResumeStart
        /\ Completed => dfu.bytesWritten = (ResumeStart + 1)..Len(Buffer(dfu))

C9_Witness ==
    /\ ResumeCase /\ Completed
    /\ ResumeStart > 0 /\ dfu.reported.offset > ResumeStart
    /\ dfu.bytesWritten = (ResumeStart + 1)..Len(Buffer(dfu))

\* C10: a submission the transport rejects as busy is attempted again, 15
\* times at most; it fails with the device-busy error only after 15 busy
\* rejections, and no 16th attempt is made
C10_BusyRetry ==
    /\ \A c \in Chains : \A i \in 1..Len(JobsOf(dfu, c)) :
          LET job == JobsOf(dfu, c)[i]
          IN  /\ job.calls <= MaxAttempts
              /\ Outstanding(job) => job.calls = (MaxAttempts - job.attempts) + 1
    /\ dfu.busyFailed \in {0, MaxAttempts}
    /\ (dfu.error = BusyError \/ dfu.writeQueue.error = BusyError) => dfu.busyFailed = MaxAttempts

C10_Witness ==
    /\ dfu.busyFailed = MaxAttempts
    /\ dfu.pc = "failed" /\ dfu.error = BusyError

\* the writeValue call of the running job of chain c throws an error that is
\* not the busy error
ThrowsOther(c) ==
    \/ WriteFail(c)
    \/ WriteDeliver(c) /\ writeValue(dev, dfu, Head(JobsOf(dfu, c))).error # ""

ThrownBy(c) ==
    IF WriteFail(c) THEN GattFailed ELSE writeValue(dev, dfu, Head(JobsOf(dfu, c))).error

\* the call that threw was the last call of its submission (the only one when
\* no busy rejection came before it), the chain has ended with the error, and
\* the update() that waits on the submission is rejected with it
ThrownOn(c) ==
    LET job == Head(JobsOf(dfu, c))
    IN  /\ job.calls = (MaxAttempts - job.attempts) + 1
        /\ ~job.busy => job.calls = 1
        /\ IF c = 0 THEN dfu'.writeQueue = [jobs |-> <<>>, error |-> ThrownBy(c)]
           ELSE Len(dfu'.detached) = Len(dfu.detached) - 1
        /\ job.awaited => dfu'.pc = "rejected" /\ dfu'.error = ThrownBy(c)

OtherErrors == {GattFailed, TooLong, "TypeError"}

\* C11: a write that fails with an error other than the busy error is not
\* attempted again (it is attempted exactly once) and its error is propagated
\* at once; with Smart Speed disabled update() then fails with that error
C11_OtherErrorNotRetried ==
    /\ [][\A c \in Chains : ThrowsOther(c) => ThrownOn(c)]_vars
    /\ [][(dfu.pc = "rejected" /\ dfu.error \in OtherErrors /\ ~dfu.enableSmartSpeed) =>
             (dfu'.pc \in {"rejected", "failed"} /\ dfu'.error = dfu.error)]_vars

C11_Witness ==
    /\ dfu.pc = "failed" /\ dfu.error = TooLong /\ ~dfu.enableSmartSpeed
    /\ dfu.writeQueue.error = TooLong
    /\ dfu.wrotePacket

\* update() has been rejected, or has failed, with Smart Speed disabled
FailingPlain == dfu.pc \in {"rejected", "failed"} /\ ~dfu.enableSmartSpeed

\* the submissions of a CREATE or of a packet that writeValue has yet to be
\* called for, over all chains
ToBeWritten(s) ==
    {j \in JobsFor(s, OpCreate) \cup JobsFor(s, 0) :
        JobsOf(s, j[1])[j[2]].phase \in {"queued", "inflight"}}

\* C12: with Smart Speed disabled a failure during an object transfer makes
\* update() fail with that error without a retry: no CREATE and no packet is
\* written after it, and packetSize and the PRN interval stay as they were
C12_PlainFailure ==
    /\ [](FailingPlain => ToBeWritten(dfu) = {})
    /\ [][FailingPlain =>
             /\ dfu'.pc \in {"rejected", "failed"} /\ dfu'.error = dfu.error
             /\ dfu'.firstCreate = dfu.firstCreate /\ dfu'.bytesWritten = dfu.bytesWritten
             /\ Cardinality(JobsFor(dfu', OpCreate)) <= Cardinality(JobsFor(dfu, OpCreate))
             /\ Cardinality(JobsFor(dfu', 0)) <= Cardinality(JobsFor(dfu, 0))]_vars
    /\ [][~dfu.enableSmartSpeed =>
             /\ dfu'.packetSize = dfu.packetSize
             /\ dfu'.packetReceiptNotification = dfu.packetReceiptNotification
             /\ dfu'.retriesAtCurrentSpeed = 0]_vars

C12_Witness ==
    /\ dfu.pc = "failed" /\ ~dfu.enableSmartSpeed
    /\ dfu.error = GattFailed /\ dfu.wrotePacket
    /\ dfu.type = TypeData /\ dfu.packetReceiptNotification = PrnEvery

\* a rejection has reached the catch handler of a transferObject call, with
\* Smart Speed enabled
Caught == dfu.pc = "rejected" /\ dfu.frames # <<>> /\ dfu.enableSmartSpeed

\* the window at offset is tried again: transferObject(offset) is called, or
\* SET_PRN is issued before it
RetriedAt(offset) ==
    \/ dfu'.frames = dfu.frames /\ dfu'.op = OpCreate
    \/ /\ dfu'.op = OpSetPrn /\ dfu'.retryAt = offset
       /\ dfu'.frames = SubSeq(dfu.frames, 1, Len(dfu.frames) - 1)

SameParameters ==
    /\ dfu'.packetSize = dfu.packetSize
    /\ dfu'.packetReceiptNotification = dfu.packetReceiptNotification

GridPacket == 100
GridPrn == 12

\* the step as C14 states it, on (packetSize, prnInterval)
Degraded(size, prn) ==
    LET half(n) == (n \div 2) + (n % 2)
    IN  IF size > 20 THEN <<IF half(size) > 20 THEN half(size) ELSE 20, prn>>
        ELSE IF prn > 1 THEN <<size, half(prn)>>
        ELSE IF prn = 0 THEN <<size, 12>>
        ELSE <<size, prn>>

DegradesAsStated ==
    \A size \in 1..GridPacket, prn \in 0..GridPrn :
        LET new == defaultStrategy(prn, size)
        IN  /\ <<new.packetSize, new.prn>> = Degraded(size, prn)
            /\ new.changed <=> Degraded(size, prn) # <<size, prn>>

ErrorResponse ==
    /\ notifications # <<>>
    /\ Head(notifications).hdr = RespHeader
    /\ Head(notifications).result # ResSuccess
    /\ Head(notifications).op \in dfu.notifyFns

\* the message C15 states for the responses the target sends
Stated(n) ==
    CASE n.result = 11 /\ n.ext = 5 -> "Error 0xb: Firmware version failure (Downgrade blocked)"
      [] n.result = 11 /\ n.ext = 13 -> "Error 0xb: Insufficient space"
      [] n.result = 4 -> "Error 0x4: Not enough memory for the data object"
      [] n.result = 10 -> "Error 0xa: Operation failed"
      [] OTHER -> "Error"

ResponseErrors ==
    {"Error 0xb: Firmware version failure (Downgrade blocked)", "Error 0xb: Insufficient space",
     "Error 0x4: Not enough memory for the data object", "Error 0xa: Operation failed"}

\* a log listener has thrown in the dispatch (see C34)
LogListenerThrew == dfu'.reached["log"] \notin {0, Len(dfu'.listeners["log"])}

C17_WaitersRejectedOnDisconnect ==
    [][(Disconnected /\ dfu.pc = "await" /\ dfu.op \in dfu.notifyFns) =>
          (dfu'.pc = "rejected" /\ dfu'.error = "Disconnected")]_vars

\* update() has settled: it has not been called, has resolved or has failed
Settled == dfu.pc \in {"idle", "done", "failed"}

\* C18: once the link has dropped while update() is in flight, update() does
\* not stay pending for ever: as long as it has not settled, some step of the
\* driver or of the transport is still to come
C18_DisconnectSettles ==
    (~gatt.connected /\ ~Settled) => ENABLED Next

\* C19: a listener that throws during a dispatch neither keeps the listeners
\* added after it from being invoked nor reaches the engine: every dispatch
\* invokes all the listeners of its event type, and no promise of update() is
\* rejected with what a listener has thrown.
C19_ListenerIsolation ==
    /\ \A eventType \in {"log", "progress"} :
          dfu.reached[eventType] \in {0, Len(dfu.listeners[eventType])}
    /\ dfu.error # ListenerError

\* the package as load() has left it, whatever the caller has done since
Loaded == IF pkg._manifest = 0 THEN pkg ELSE load(SecureDfuPackage(pkg.buffer))

\* the manifest the last read has returned
LastRead == pkg'.held[Len(pkg'.held)].ref

\* C20: the manifest getter returns null before load(); after load() every
\* read returns a deep copy made of new objects only, equal to the manifest
\* of the archive whatever the caller has done to the manifests it read
\* before, and getBaseImage and getAppImage return what they return on a
\* package nobody has touched.
C20_ManifestCopy ==
    /\ [][(ReadManifest /\ pkg._manifest = 0) => LastRead = 0]_vars
    /\ [][(ReadManifest /\ pkg._manifest # 0) =>
              /\ LastRead # 0
              /\ \A id \in objects(pkg'.heap, LastRead) : id > Len(pkg.heap)
              /\ stringify(pkg'.heap, LastRead) = pkg.buffer.manifest]_vars
    /\ [][GetBaseImage => pkg'.image = getBaseImage(Loaded)]_vars
    /\ [][GetAppImage => pkg'.image = getAppImage(Loaded)]_vars

\* a manifest read, and an image got, after the caller has changed a manifest
C20_Witness ==
    /\ pkg.mutations > 0
    /\ \E i \in 1..Len(pkg.held) : pkg.held[i].ref # 0 /\ pkg.held[i].after > 0
    /\ pkg.image.type = "application" /\ pkg.after > 0

\* the update() call u, of two made before either has connected
Call(u) == focus(dfu, u)

Malformed(buffer) == ~buffer.file \/ buffer.json # "object" \/ ~buffer.key

\* C21: load() fails when manifest.json is absent from the archive, when it
\* is not valid JSON, and when the parsed JSON lacks the manifest key; it
\* succeeds for an archive with a manifest
C21_MalformedPackage ==
    [][Load => IF Malformed(pkg.buffer) THEN pkg'.loaded \notin {"pending", "resolved"}
               ELSE pkg'.loaded = "resolved"]_vars

\* load() has resolved for an archive whose manifest.json is {}
C21_Witness ==
    /\ pkg.loaded = "resolved" /\ pkg.buffer.file /\ pkg.buffer.json = "object"
    /\ ~pkg.buffer.key /\ pkg._manifest = 0

\* the step submits control request op (sendControl), or a packet (transferData)
Issued(op) == dfu'.pc = "await" /\ dfu'.op = op /\ dfu.pc # "await"
PacketIssued == dfu'.pc = "packet" /\ (dfu.pc # "packet" \/ dfu'.dataStart # dfu.dataStart)

\* the success response to control request op has been received, and the
\* step that waited for it has not yet run
Answered(op) ==
    /\ dfu.pc = "settle" /\ dfu.op = op
    /\ dfu.response.hdr = RespHeader /\ dfu.response.op = op
    /\ dfu.response.result = ResSuccess

\* the writes of request op that update() waits on and that have not reached
\* the target
Unwritten(s, op) ==
    {j \in JobsFor(s, op) : /\ JobsOf(s, j[1])[j[2]].awaited
                            /\ JobsOf(s, j[1])[j[2]].phase \in {"queued", "inflight"}}

\* a control command is answered only by the dispatch of a success response
\* to it, after its write
AnsweredByResponse ==
    (dfu'.pc = "settle" /\ dfu.pc # "settle") =>
        /\ HandleNotification
        /\ dfu.pc = "await" /\ dfu'.op = dfu.op
        /\ Head(notifications) = dfu'.response
        /\ dfu'.response.hdr = RespHeader /\ dfu'.response.op = dfu.op
        /\ dfu'.response.result = ResSuccess
        /\ Unwritten(dfu, dfu.op) = {}

\* a submission is the last job of the write queue
Submitted(op) ==
    LET jobs == dfu'.writeQueue.jobs
    IN  jobs # <<>> /\ jobs[Len(jobs)].msg.opcode = op /\ jobs[Len(jobs)].awaited

\* a rejection is handled: by the catch handler of transferObject, and by the
\* SET_PRN it sends before it calls transferObject again
Retrying == dfu.pc = "rejected" \/ (Answered(OpSetPrn) /\ dfu.retryAt >= 0)

WindowOrder ==
    /\ \A op \in {OpCreate, OpChecksum, OpExecute} : Issued(op) => Submitted(op)
    /\ PacketIssued =>
          /\ Submitted(0)
          /\ dfu'.start = dfu.start /\ dfu'.end = dfu.end
          /\ \/ Answered(OpCreate) /\ dfu'.dataStart = 0
             \/ /\ dfu.pc \in {"packet", "packetDelay", "prnWait"}
                /\ dfu'.dataStart = IF dfu.pc = "prnWait" THEN dfu.dataStart ELSE DataEnd(dfu)
                /\ Unwritten(dfu', 0) = {<<0, Len(dfu'.writeQueue.jobs)>>}
    /\ Answered(OpCreate) /\ dfu'.pc # dfu.pc =>
          PacketIssued \/ dfu'.pc \in {"prnWait", "rejected"}
    /\ Issued(OpChecksum) =>
          /\ dfu.pc \in {"packet", "packetDelay"}
          /\ DataEnd(dfu) = dfu.end - dfu.start
          /\ (dfu.start + 1 .. dfu.end) \subseteq dfu.bytesWritten
          /\ Unwritten(dfu', 0) = {}
          /\ \A j \in JobsFor(dfu', 0) : ~JobsOf(dfu', j[1])[j[2]].awaited
    /\ Issued(OpExecute) => Answered(OpChecksum)
    /\ Issued(OpCreate) =>
          /\ Answered(OpSelect) \/ Answered(OpExecute) \/ Retrying
          /\ Answered(OpExecute) => dfu'.start = dfu.end
          /\ (dfu.firstCreate # NoCreate /\ dfu'.start > dfu.start) => Answered(OpExecute)

\* C22: for every window CREATE, the packets of the window,
\* CALCULATE_CHECKSUM and EXECUTE are issued in this order, each only after
\* the success response to the control command before it: no packet before
\* the CREATE response, no checksum request before the last packet write of
\* the window has returned, no CREATE of the next window before the EXECUTE
\* response
C22_WindowOrder == [][AnsweredByResponse /\ WindowOrder]_vars

\* the second window of the firmware has been checked, without a retry
C22_Witness ==
    /\ dfu.pc = "await" /\ dfu.op = OpExecute /\ dfu.type = TypeData
    /\ dfu.start > 0 /\ dfu.rejections = 0
    /\ dfu.packetSize < dfu.end - dfu.start

\* the value the step submits
Value == dfu'.writeQueue.jobs[Len(dfu'.writeQueue.jobs)].msg

\* the transfer of the init packet has finished: the EXECUTE of its last
\* window has succeeded, or the SELECT response has shown the target to hold
\* it
InitFinished ==
    /\ dfu.type = TypeCommand
    /\ \/ /\ dfu.response.op = OpExecute /\ dfu.response.result = ResSuccess
          /\ dfu.end = Len(dfu.init) /\ TypeCommand \in dfu.completed
       \/ /\ dfu.response.op = OpSelect /\ dfu.response.result = ResSuccess
          /\ dfu.response.offset = Len(dfu.init)
          /\ dfu.response.crc = crc32Impl(dfu.init)
          /\ "init packet already available, skipping transfer" \in dfu.logged

ImagesInOrder ==
    \* the init packet is selected first, the firmware after it has finished
    /\ dfu'.type # dfu.type =>
          \* transfer() is called: the SELECT is submitted, or its write throws
          /\ Issued(OpSelect) \/ (dfu'.pc = "rejected" /\ dfu'.writeQueue.error # "")
          /\ \/ dfu.type = 0 /\ dfu'.type = TypeCommand
             \/ dfu.pc = "pause" /\ InitFinished /\ dfu'.type = TypeData
    /\ (dfu'.pc = "pause" /\ dfu.pc # "pause") =>
          /\ Answered(OpExecute) \/ Answered(OpSelect)
          /\ InitFinished'
    \* SELECT and CREATE name the object type of the image in transfer, and
    \* the packets carry its bytes
    /\ Issued(OpSelect) => Submitted(OpSelect) /\ Value = Request(OpSelect, dfu'.type, 0)
    /\ Issued(OpCreate) =>
          /\ Value.opcode = OpCreate /\ Value.type = dfu.type
          /\ dfu.type \in {TypeCommand, TypeData}
    /\ PacketIssued =>
          Value = Packet(Slice(IF dfu.type = TypeCommand THEN dfu.init ELSE dfu.firmware,
                               dfu'.start + dfu'.dataStart, dfu'.start + DataEnd(dfu')))

\* C23: the images are uploaded one after the other: SELECT_DATA,
\* CREATE_DATA and the packets of the firmware are issued only after the
\* transfer of the init packet has finished (its last EXECUTE has succeeded,
\* or it was skipped); the init phase uses SELECT 06 01 and CREATE 01 01, the
\* firmware phase SELECT 06 02 and CREATE 01 02
C23_ImagesInOrder == [][ImagesInOrder]_vars

\* the firmware is in transfer after the init packet has been transferred
C23_Witness ==
    /\ dfu.type = TypeData /\ dfu.pc = "packet" /\ TypeCommand \in dfu.completed
    /\ dfu.init # <<>>
    /\ \E j \in JobsFor(dfu, 0) : JobsOf(dfu, j[1])[j[2]].msg.data # <<>>

\* the transfer of the current image starts at offset 0: the target has
\* reported offset 0, or forceRestart has set it to 0
FreshTransfer ==
    /\ dfu.selected /\ dfu.maxSize > 0
    /\ dfu.reported.offset = 0 \/ restarting(dfu, dfu.reported.offset)

\* the bytes of the image (1-based) a CREATE covers
Window(w) == w.start + 1 .. w.start + w.size

WindowsCover ==
    FreshTransfer =>
        LET L == Len(Buffer(dfu))
            M == dfu.maxSize
        IN  /\ \A w \in dfu.created :
                  /\ w.size >= 0 /\ w.size <= M
                  /\ w.size < M => w.start + w.size = L
                  /\ w.start = 0 \/ \E v \in dfu.created : v.start + v.size = w.start
            /\ \A w, v \in dfu.created : w # v => Window(w) \cap Window(v) = {}
            /\ Completed => UNION {Window(w) : w \in dfu.created} = 1..L

\* C24: in a transfer that starts at offset 0 of an image of length L to a
\* target with window size M > 0, the CREATEs cover the consecutive windows
\* [0,M), [M,2M), ... which do not overlap and together are [0,L); every
\* CREATE carries the size of its window, at most M, and only the last
\* window is smaller than M
C24_Windows ==
    /\ []WindowsCover
    /\ [][Issued(OpCreate) =>
             /\ Value.arg = setUint32(dfu'.end - dfu'.start)
             /\ FreshTransfer' /\ dfu.rejections = 0 =>
                   dfu'.start = IF dfu.created = {} THEN 0 ELSE dfu.end]_vars

\* a firmware of two windows, the second shorter than the first, has been
\* transferred from offset 0
C24_Witness ==
    /\ FreshTransfer /\ Completed /\ dfu.type = TypeData
    /\ Cardinality(dfu.created) = 2
    /\ \E w \in dfu.created : w.size > 0 /\ w.size < dfu.maxSize

\* the image in transfer has length zero
EmptyImage == dfu.type \in {TypeCommand, TypeData} /\ Buffer(dfu) = <<>>

\* C25: for an image of length zero the SELECT is issued, no CREATE is sent
\* and no packet is written
C25_EmptyImage ==
    /\ [][(dfu'.type # dfu.type /\ EmptyImage') =>
             \/ Issued(OpSelect) /\ Value = Request(OpSelect, dfu'.type, 0)
             \/ dfu'.pc = "rejected" /\ dfu'.writeQueue.error # ""]_vars
    /\ [](EmptyImage => dfu.created = {} /\ ~dfu.wrotePacket)

\* an empty firmware has been transferred: an object of size 0 was created
\* and a packet written for it
C25_Witness ==
    /\ EmptyImage /\ dfu.type = TypeData /\ Completed
    /\ dfu.created = {[start |-> 0, size |-> 0]} /\ dfu.wrotePacket
    /\ dfu.reported.offset = 0

\* the default policy has found nothing more to change
GivenUp == dfu.exhausted /\ ~dfu.policy.fn

\* C26: with Smart Speed enabled and the default policy, once the policy can
\* change nothing more (packetSize <= 20 and the PRN interval 1) the
\* controller gives up: the error propagates and update() is rejected with
\* it, and from then on no retry follows, so the retries end
C26_GivesUp ==
    /\ [](GivenUp =>
            /\ dfu.packetSize <= MinPacketSize /\ dfu.packetReceiptNotification = 1
            /\ dfu.pc \in {"rejected", "failed"})
    /\ [][GivenUp => GivenUp' /\ dfu'.error = dfu.error]_vars
    /\ [][GivenUp => ~Issued(OpSetPrn) /\ ~Issued(OpCreate)]_vars

\* the catch handler of a transferObject call has given up in the second
\* window, and the first window is created again
C26_Witness ==
    /\ GivenUp /\ dfu.type = TypeData
    /\ dfu.pc = "await" /\ dfu.op = OpCreate /\ dfu.start = 0
    /\ \E w \in dfu.created : w.start > 0

\* C27: every retry calls transferObject again at the window that failed:
\* the CREATE of a retry is for the window in transfer, the windows executed
\* before it are not created again, and the transfer does not start again
\* from byte 0
C27_RetryAtCurrentWindow ==
    [][(Issued(OpCreate) /\ Retrying) =>
          /\ dfu'.start = dfu.start
          /\ \A w \in dfu.created : w.start <= dfu'.start]_vars

\* a retry has created the first window again after the second had been
\* created
C27_Witness ==
    /\ dfu.type = TypeData /\ dfu.pc = "await" /\ dfu.op = OpCreate
    /\ dfu.start = 0 /\ dfu.rejections > 0
    /\ \E w \in dfu.created : w.start > 0

\* C28: when the EXECUTE of a window has succeeded, of any window of the
\* image and not only of the last, retriesAtCurrentSpeed is reset to 0: the
\* next window starts with the whole retry budget
C28_RetriesResetPerWindow ==
    [][(Answered(OpExecute) /\ AfterExecute(1)) => dfu'.retriesAtCurrentSpeed = 0]_vars

\* the second window is created after the first was executed on a retry (the
\* last retry was at offset 0), and the retry is still counted
C28_Witness ==
    /\ dfu.type = TypeData /\ dfu.pc = "await" /\ dfu.op = OpCreate
    /\ dfu.start > 0 /\ dfu.retryAt = 0
    /\ dfu.packetReceiptNotification > 0
    /\ dfu.retriesAtCurrentSpeed > 0

\* the step calls the function given as enableSmartSpeed, which returns
\* PolicyResult
Consulted == dfu'.consults = dfu.consults + 1
PolicyResult == IF dfu.policy.results = <<>> THEN Null ELSE Head(dfu.policy.results)

\* the function is called by the catch handler only, when three retries have
\* been made at the current parameters and the transfer has failed again
ConsultedAfterThreeRetries ==
    Consulted =>
        /\ Catch(1) /\ Caught /\ dfu.policy.fn
        /\ dfu.retriesAtCurrentSpeed = MaxRetriesAtSpeed
        /\ dfu.rejections > MaxRetriesAtSpeed

\* the function returns null: the handler changes nothing and throws the
\* error again
NullStops ==
    (Consulted /\ PolicyResult.null) =>
        /\ SameParameters
        /\ dfu'.pc = "rejected" /\ dfu'.error = dfu.error /\ dfu'.exhausted

\* the function returns (prn, packetSize): they are the parameters of the
\* retry that follows, the first of three
ResultApplied ==
    (Consulted /\ ~PolicyResult.null) =>
        /\ dfu'.packetReceiptNotification = PolicyResult.prn
        /\ dfu'.packetSize = PolicyResult.packetSize
        /\ dfu'.retriesAtCurrentSpeed = 0
        /\ RetriedAt(dfu.frames[Len(dfu.frames)])

\* the function has returned null
Stopped == dfu.exhausted /\ dfu.policy.fn

\* C29: a function given as the Smart Speed policy is called only after
\* three retries at the current parameters have failed; when it returns null
\* no retry follows and the error propagates: update() is rejected with it;
\* when it returns (prn, packetSize) these become the current parameters and
\* the window is tried again
C29_UserPolicy ==
    /\ [][ConsultedAfterThreeRetries /\ NullStops /\ ResultApplied]_vars
    /\ [](Stopped => dfu.pc \in {"rejected", "failed"})
    /\ [][Stopped => Stopped' /\ dfu'.error = dfu.error]_vars

\* the function has returned null for the second window, and the first
\* window is created again
C29_Witness ==
    /\ Stopped /\ dfu.consults = 1 /\ dfu.type = TypeData
    /\ dfu.pc = "await" /\ dfu.op = OpCreate /\ dfu.start = 0
    /\ \E w \in dfu.created : w.start > 0

\* C30: flow control: while the PRN interval is above 0,
\* packetsSentSincePRN never exceeds it (no more than prnInterval packets are
\* written without a PRN wait), across windows, retries and degradations
C30_FlowControl ==
    dfu.packetReceiptNotification > 0 =>
        dfu.packetsSentSincePRN <= dfu.packetReceiptNotification

\* the catch handler has changed the parameters and awaits the answer to
\* the SET_PRN of the retry, or that SET_PRN has failed: packetsSentSincePRN
\* still counts the packets written before
RetryPrn == dfu.op = OpSetPrn /\ dfu.retryAt >= 0

\* C30 as it holds: with the PRN interval above 0, a packet is written only
\* while fewer than prnInterval packets are counted, and packetsSentSincePRN
\* exceeds the interval only while the SET_PRN of a retry is pending or
\* has failed, when no packet is written
C30_FlowControlAtWrite ==
    /\ [][(PacketIssued /\ dfu'.packetReceiptNotification > 0) =>
             dfu'.packetsSentSincePRN < dfu'.packetReceiptNotification]_vars
    /\ [][RetryPrn' => ~PacketIssued]_vars
    /\ []((dfu.packetReceiptNotification > 0 /\ ~RetryPrn) =>
             dfu.packetsSentSincePRN <= dfu.packetReceiptNotification)

\* a packet of the second window is written after a PRN wait, on a retry
\* that has lowered the interval
C30_Witness ==
    /\ dfu.pc = "packet" /\ dfu.type = TypeData /\ dfu.start > 0
    /\ dfu.packetReceiptNotification > 0
    /\ dfu.packetReceiptNotification < dfu.atSelect.prn
    /\ dfu.packetsSentSincePRN = 0 /\ dfu.dataStart > 0

\* C31: every PRN wait ends: while transferData waits, the resolver of the
\* wait is registered, so that the next PRN notification releases it, and
\* its 3000 ms timer is pending and releases it at the latest, whatever the
\* earlier waits, their timers and the notifications did
C31_PrnWaitEnds ==
    dfu.pc = "prnWait" => dfu.prnResolver /\ dfu.prnTimer

\* a wait that nothing can end: the timer of an earlier wait has cleared the
\* resolver, the timer of the wait itself has fired and found none, and no
\* timer is left
C31_Witness ==
    /\ dfu.pc = "prnWait" /\ ~dfu.prnResolver /\ ~dfu.prnTimer
    /\ dfu.staleTimers = 0 /\ notifications = <<>>

\* the step dispatches a packet receipt notification to handleNotification
PrnReceived ==
    /\ SendChecksumNotification
    /\ sendChecksumNotification(dev) # <<>> /\ dfu.notified > 0

\* transferData is in a PRN wait
Waiting == dfu.pc = "prnWait"

\* a notification received during a wait ends it, once: the resolver is
\* unregistered and the packet that waited is written
ReleasedOnce ==
    (PrnReceived /\ Waiting) =>
        /\ ~Waiting' /\ ~dfu'.prnResolver
        /\ dfu'.packetsSentSincePRN = 0
        /\ dfu'.dataStart = dfu.dataStart
        /\ PacketIssued \/ dfu'.pc = "rejected"

\* a notification received outside a wait changes validatedBytes and is
\* reported as progress, and nothing else: no resolver and no timer
IgnoredOutsideWait ==
    (PrnReceived /\ ~Waiting) =>
        /\ dfu'.validatedBytes = sendChecksumNotification(dev)[1].offset
        /\ dfu'.pc = dfu.pc /\ dfu'.op = dfu.op
        /\ dfu'.prnResolver = dfu.prnResolver /\ dfu'.prnTimer = dfu.prnTimer
        /\ dfu'.staleTimers = dfu.staleTimers
        /\ dfu'.packetsSentSincePRN = dfu.packetsSentSincePRN
        /\ dfu'.writeQueue = dfu.writeQueue /\ dfu'.notifyFns = dfu.notifyFns

\* C32: a PRN notification received while a PRN wait is pending releases
\* that wait, exactly once; one received while no wait is pending only
\* updates validatedBytes and emits progress: it releases and cancels nothing
C32_PrnNotification == [][ReleasedOnce /\ IgnoredOutsideWait]_vars

\* a PRN notification has been handled during a wait, and the wait goes on
C32_Witness ==
    /\ Waiting /\ dfu.lostPrn /\ ~dfu.prnResolver /\ dfu.prnTimer
    /\ dev.prnTimers = 0 /\ dfu.staleTimers = 0

\* the step after the EXECUTE response goes on to the next window
WindowAdvance == Answered(OpExecute) /\ AfterExecute(1) /\ dfu.end < Len(Buffer(dfu))

\* C33: packetsSentSincePRN is reset to 0 whenever a PRN notification is
\* received and whenever the transfer advances to the next window
C33_ResetOnPrnAndWindow ==
    [][(PrnReceived \/ WindowAdvance) => dfu'.packetsSentSincePRN = 0]_vars

\* the steps at which the code assigns 0: the end of a PRN wait, the start
\* of the transfer of an image, the retry of a window
WaitEnded == Waiting /\ ~Waiting' /\ (PrnReceived \/ PrnTimeout(1))
TransferStarted == Answered(OpSelect) /\ AfterSelect(1) /\ dfu'.pc # "pause"
Retried ==
    \/ /\ Catch(1) /\ Caught /\ calculateSmartSpeed(dfu).retry
       /\ dfu'.packetReceiptNotification = 0
    \/ Answered(OpSetPrn) /\ AfterSetPrn(1) /\ dfu.retryAt >= 0

\* C33 as it holds: packetsSentSincePRN is reset to 0 when a PRN wait ends
\* (by the notification or by the timeout), when the transfer of an image
\* starts and when a window is retried, and at no other step; every packet
\* written adds 1, and a PRN notification outside a wait and the advance to
\* the next window leave it as it is
C33_ResetPoints ==
    /\ [][(WaitEnded \/ TransferStarted \/ Retried) => dfu'.packetsSentSincePRN = 0]_vars
    /\ [][dfu'.packetsSentSincePRN # dfu.packetsSentSincePRN =>
             \/ WaitEnded \/ TransferStarted \/ Retried
             \/ /\ dfu'.packetsSentSincePRN = dfu.packetsSentSincePRN + 1
                /\ \E c \in Chains : WriteSettle(c)]_vars
    /\ [][((PrnReceived /\ ~Waiting) \/ WindowAdvance) =>
             dfu'.packetsSentSincePRN = dfu.packetsSentSincePRN]_vars

\* the second window is created with the packets of the first still counted
C33_Witness ==
    /\ dfu.pc = "await" /\ dfu.op = OpCreate /\ dfu.type = TypeData
    /\ dfu.start > 0 /\ dfu.rejections = 0
    /\ dfu.packetReceiptNotification > 0 /\ dfu.packetsSentSincePRN > 0

\* the step dispatches the response to control request op to
\* handleNotification
ResponseHandled(op) ==
    /\ HandleNotification /\ dfu.notified > 0
    /\ Head(notifications).hdr = RespHeader /\ Head(notifications).op = op

\* the step is the failure of the write of control request op
ControlWriteFailed(op) ==
    \E c \in Chains :
        /\ JobsOf(dfu, c) # <<>> /\ Head(JobsOf(dfu, c)).msg.opcode = op
        /\ \/ WriteFail(c)
           \/ /\ WriteDeliver(c)
              /\ writeValue(dev, dfu, Head(JobsOf(dfu, c))).error \notin {"", InProgress}

\* C34: the waiter of a control request is removed as soon as the request
\* is completed, whatever the outcome: once a response to opcode X, success
\* or error, has been handled, and once the write of X has failed, no waiter
\* is registered under X
C34_WaiterRemoved ==
    [][\A op \in 1..OpSelect :
          (ResponseHandled(op) \/ ControlWriteFailed(op)) => op \notin dfu'.notifyFns]_vars

\* an error response has been handled, and its waiter is still registered
C34_Witness ==
    /\ dfu.pc = "await" /\ dfu.op = OpCreate /\ OpCreate \in dfu.notifyFns
    /\ notifications = <<>> /\ dfu.writeQueue.jobs = <<>> /\ dfu.detached = <<>>
    /\ dfu.reached.log = 1 /\ dfu.listeners = StrictListeners
    /\ dev.forceExtendedError = OpCreate

\* the notifications of the peer that are not of the protocol
Framed(hdr, op) ==
    {[Response(op, result, 0, MaxObjectSize, 0, 0) EXCEPT !.hdr = hdr] :
        result \in {ResSuccess, ResFailed}}

\* the peer can send a notification now
Listening == dfu.notified > 0 /\ notifications = <<>>

\* the handler has thrown, and nothing else has happened
Raised(t) == t = [dfu EXCEPT !.violation = Unrecognised]

\* in t the waiter under op has been completed: it is removed, and the
\* request that waited for it has gone on or has failed
WaiterCompleted(t, op) ==
    /\ op \in dfu.notifyFns /\ op \notin t.notifyFns
    /\ (dfu.pc = "await" /\ dfu.op = op) => t.pc # "await"

\* C35 as stated: every control notification whose first byte is neither
\* 0x03 nor 0x60 raises "Unrecognised control response" and completes no
\* waiter
C35_Unrecognised ==
    Listening =>
        \A hdr \in Framings, op \in 1..OpSelect : \A n \in Framed(hdr, op) :
            Raised(Dispatched(n)) /\ ~WaiterCompleted(Dispatched(n), op)

\* C35: every control notification whose first byte is none of 0x03, 0x60
\* and 0x20 raises "Unrecognised control response" and completes no waiter;
\* one whose first byte is 0x20 is handled as a response: it raises nothing,
\* and completes the waiter registered under its second byte
C35_UnrecognisedHeader ==
    Listening =>
        \A hdr \in Framings, op \in 1..OpSelect : \A n \in Framed(hdr, op) :
            IF hdr \in OPERATIONS_RESPONSE
            THEN /\ Dispatched(n).violation = dfu.violation
                 /\ op \in dfu.notifyFns => WaiterCompleted(Dispatched(n), op)
            ELSE Raised(Dispatched(n)) /\ ~WaiterCompleted(Dispatched(n), op)

\* a notification of first byte 0x21 has been raised, and the request in
\* progress still waits for its response
C35_Witness ==
    /\ dfu.violation = Unrecognised
    /\ dfu.pc = "await" /\ dfu.op = OpExecute /\ OpExecute \in dfu.notifyFns

\* C36: a write submitted to the serializer is issued once the submission
\* before it has completed, whether that one succeeded or failed: no
\* submission fails with the error of an earlier one without its write
\* having been issued
C36_IssuedAfterFailure == ~dfu.unissued

\* a submission has failed with the error of an earlier one, and the
\* update() that made it is rejected with that error
C36_Witness ==
    /\ dfu.unissued /\ dfu.writeQueue.error = GattFailed
    /\ \E u \in Updates : focus(dfu, u).pc \in {"rejected", "failed"}
                             /\ focus(dfu, u).error = GattFailed

\* update() is in its final wait, after device.gatt.disconnect()
FinalWait == dfu.pc = "disconnecting"

\* the step ends the transfer of the firmware: the response to the EXECUTE
\* of its last window has been received
FirmwareCompleted ==
    /\ Answered(OpExecute) /\ AfterExecute(1)
    /\ dfu.type = TypeData /\ dfu.end >= Len(dfu.firmware)

\* C37: after the firmware image completes, update() requests a disconnect
\* and then always resolves with the device, on the disconnect event or else
\* after the 5000 ms timeout: the final wait begins when the firmware
\* completes and at no other step; during the wait the timer is pending,
\* the disconnect event and the timer each resolve update(), and no step
\* rejects it or takes it anywhere else; once resolved it stays resolved
C37_FinalWaitResolves ==
    /\ [](FinalWait => ENABLED DisconnectTimeout(1))
    /\ [][FirmwareCompleted => dfu'.pc = "disconnecting"]_vars
    /\ [][(dfu'.pc = "disconnecting" /\ ~FinalWait) => FirmwareCompleted]_vars
    /\ [][FinalWait => dfu'.pc \in {"disconnecting", "done"}]_vars
    /\ [][(FinalWait /\ (Disconnected \/ DisconnectTimeout(1))) =>
             dfu'.pc = "done"]_vars
    /\ [][dfu.pc = "done" => dfu'.pc = "done"]_vars

\* update() has resolved by the timeout: the disconnect event has not come
C37_Witness ==
    /\ dfu.pc = "done" /\ gatt.connected
    /\ TypeData \in dfu.completed

\* the control writes submitted whose promise update() still waits on
AwaitedWrites ==
    {job \in UNION {{JobsOf(dfu, c)[i] : i \in 1..Len(JobsOf(dfu, c))} : c \in Chains} :
        job.msg.opcode # 0 /\ job.awaited}

\* the target has the request of update(), and writeValue has not returned
Unreturned ==
    /\ dfu.writeQueue.jobs # <<>>
    /\ Head(dfu.writeQueue.jobs).phase = "delivered"
    /\ Head(dfu.writeQueue.jobs).msg.opcode = dfu.op

ChecksumHandled == Answered(OpChecksum) /\ AfterChecksum(1)

\* C39: EXECUTE is sent for the window [start, end) only if the offset the
\* checksum response reports equals end: a target that reports a smaller
\* offset, with the CRC of that shorter prefix of the image, does not get
\* its window executed
C39_ExecuteOnlyAtEnd ==
    [][(ChecksumHandled /\ Issued(OpExecute)) => dfu.response.offset = dfu.end]_vars

\* EXECUTE is awaited for a window of which the target has reported less
\* than the end, with the CRC of what it reported
C39_Witness ==
    /\ dfu.pc = "await" /\ dfu.op = OpExecute
    /\ dfu.response.op = OpChecksum /\ dfu.response.result = ResSuccess
    /\ dfu.response.offset < dfu.end
    /\ checkCrc(Slice(Buffer(dfu), 0, dfu.response.offset), dfu.response.crc)

(***************************************************************************)
(* calculateSmartSpeed with the default strategy, called for one failure   *)
(* after the other, from every packet size of 1..GridPacket and every PRN  *)
(* interval of 0..GridPrn, until it returns false.                         *)
(***************************************************************************)
InitDegrade ==
    /\ \E size \in 1..GridPacket, prn \in 0..GridPrn :
          LET cfg == CHOOSE c \in Configs : c.enableSmartSpeed
          IN  dfu = [SecureDfu(cfg, FirmwareData(MaxObjectSize)) EXCEPT
                        !.packetSize = size, !.packetReceiptNotification = prn,
                        !.atSelect = [packetSize |-> size, prn |-> prn]]
    /\ dev = Fresh(FALSE)
    /\ gatt = [connected |-> FALSE, faults |-> MaxFaults]
    /\ notifications = <<>>
    /\ pkg = SecureDfuPackage(CHOOSE b \in Buffers : ~b.file)

\* a failure reaches calculateSmartSpeed; once it has returned false the
\* update has failed
CalculateSmartSpeed ==
    /\ ~dfu.exhausted
    /\ dfu' = calculateSmartSpeed(dfu).s
    /\ UNCHANGED <<dev, notifications, gatt, pkg>>

SpecDegrade == InitDegrade /\ [][CalculateSmartSpeed]_vars /\ WF_vars(CalculateSmartSpeed)

\* the state the default strategy changes nothing in
NoChange == dfu.packetSize <= MinPacketSize /\ dfu.packetReceiptNotification = 1

\* C40: under the default policy the degradation is monotone and finite:
\* the packet size never increases and, if it is at least 20, never goes
\* below 20; a positive PRN interval never increases and never becomes 0;
\* from every start the policy reaches, after finitely many steps, the state
\* it changes nothing in (packet size at most 20 and PRN interval 1), and
\* it returns false there and nowhere else
C40_DegradationEnds ==
    /\ [][dfu'.packetSize <= dfu.packetSize]_vars
    /\ [][dfu.packetSize >= MinPacketSize => dfu'.packetSize >= MinPacketSize]_vars
    /\ [][dfu.packetReceiptNotification > 0 =>
             /\ dfu'.packetReceiptNotification <= dfu.packetReceiptNotification
             /\ dfu'.packetReceiptNotification > 0]_vars
    /\ [](dfu.exhausted => NoChange)
    /\ <>(NoChange /\ dfu.exhausted)

\* the policy has ended from the largest packet size, with the PRN off
C40_Witness ==
    /\ dfu.exhausted /\ NoChange
    /\ dfu.atSelect = [packetSize |-> GridPacket, prn |-> 0]
    /\ dfu.packetSize = MinPacketSize

====
